---- MODULE Spec2Model ----
(***************************************************************************)
(* Backtester.run_backtest (src/src/backtest/engine.py): the simulation    *)
(* loop that turns a probability signal into fills, fees, realized PnL, a  *)
(* trade ledger and an equity curve.                                       *)
(*                                                                         *)
(* Numbers.  The program computes in float64.  The model computes the same *)
(* expressions exactly:                                                    *)
(*   - a row's inputs (bid_px, ask_px, prob) and the strategy parameters   *)
(*     are small rationals <<numerator, denominator>>, denominator > 0;    *)
(*   - money and sizes (cash, holdings, size, fee, pnl, equity) are exact  *)
(*     fixed-denominator numbers: a natural number of units 1/One, kept as *)
(*     NLimbs limbs in base 10^4, least significant limb first.  The       *)
(*     variable `exact` records that no division ever left a remainder and *)
(*     no result ever needed more than NLimbs limbs, so within the bounds  *)
(*     every amount of the model is the real number the source's           *)
(*     expression denotes.                                                 *)
(***************************************************************************)
EXTENDS Integers, Sequences, FiniteSets, TLC

\* ---------------------------------------------------------------- bounds
\* Longest row sequence (len(df)) explored.
MaxRows == 5

\* --------------------------------------------------- exact amounts (limbs)
Base == 10^4
\* Most BUY fills a run of MaxRows rows can hold (a position opened on a row
\* cannot close before the next row).
MaxBuys == (MaxRows + 1) \div 2
\* Limbs (4 decimal places each) kept after the decimal point: a fill adds at
\* most 7 decimal places to cash (2 for the 0.99 buffer or 1 for the price,
\* 5 for the fee rate), and a row fills at most once.
FracLimbs == 2 * MaxRows
\* Limbs in all: the unit's own factors, cash, and one limb of headroom.
NLimbs == FracLimbs + 2 * MaxBuys + 3

Zero == SubSeq([k \in 1..NLimbs |-> 0], 1, NLimbs)

\* The value of an unbound Python name (`size` before the first BUY).
Unbound == <<>>

\* The operators below bind their operands and every carry to a value
\* first (x \in {a}), so that each is computed once however often it is read.

RECURSIVE AddFrom(_, _, _, _)
AddFrom(x, y, k, c) ==
    IF k > NLimbs THEN <<>>
    ELSE CHOOSE r \in {<<s % Base>> \o AddFrom(x, y, k + 1, s \div Base) :
                       s \in {x[k] + y[k] + c}} : TRUE
\* a + b
Add(a, b) == CHOOSE r \in {AddFrom(x, y, 1, 0) : x \in {a}, y \in {b}} : TRUE

RECURSIVE SubFrom(_, _, _, _)
SubFrom(x, y, k, c) ==
    IF k > NLimbs THEN <<>>
    ELSE CHOOSE r \in {<<s % Base>> \o
                           SubFrom(x, y, k + 1, IF s < 0 THEN 1 ELSE 0) :
                       s \in {x[k] - y[k] - c}} : TRUE
\* a - b, for a >= b
Sub(a, b) == CHOOSE r \in {SubFrom(x, y, 1, 0) : x \in {a}, y \in {b}} : TRUE

\* a < b
Less(a, b) ==
    \E x \in {a}, y \in {b} :
        \E k \in 1..NLimbs :
            /\ x[k] < y[k]
            /\ \A j \in (k + 1)..NLimbs : x[j] = y[j]

RECURSIVE MulFrom(_, _, _, _)
MulFrom(x, n, k, c) ==
    IF k > NLimbs THEN <<>>
    ELSE CHOOSE r \in {<<s % Base>> \o MulFrom(x, n, k + 1, s \div Base) :
                       s \in {x[k] * n + c}} : TRUE
\* a * n, n a natural number below 10^5
MulSmall(a, n) == CHOOSE r \in {MulFrom(x, n, 1, 0) : x \in {a}} : TRUE

\* Long division of x by n from the limb k down, rem being what is left of
\* the limbs above k: <<the quotient's limbs 1..k, the final remainder>>.
RECURSIVE DivFrom(_, _, _, _)
DivFrom(x, n, k, rem) ==
    IF k = 0 THEN <<<<>>, rem>>
    ELSE CHOOSE r \in
             {CHOOSE t \in {<<d[1] \o <<cur \div n>>, d[2]>> :
                            d \in {DivFrom(x, n, k - 1, cur % n)}} : TRUE :
              cur \in {rem * Base + x[k]}} : TRUE
\* a / n rounded down, n a natural number in 1..10^5
DivSmall(a, n) ==
    CHOOSE r \in {DivFrom(x, n, NLimbs, 0)[1] : x \in {a}} : TRUE
\* the remainder DivSmall(a, n) drops
RemSmall(a, n) ==
    CHOOSE r \in {DivFrom(x, n, NLimbs, 0)[2] : x \in {a}} : TRUE

\* a * (q[1]/q[2]) and a / (q[1]/q[2]) for a small positive rational q
MulRat(a, q) == DivSmall(MulSmall(a, q[1]), q[2])
DivRat(a, q) == DivSmall(MulSmall(a, q[2]), q[1])
\* MulRat / DivRat dropped nothing and the top limb (the headroom) is unused
MulRatExact(a, q) == RemSmall(MulSmall(a, q[1]), q[2]) = 0 /\ a[NLimbs] = 0
DivRatExact(a, q) == RemSmall(MulSmall(a, q[2]), q[1]) = 0 /\ a[NLimbs] = 0

\* a - b as a signed amount
SignedSub(a, b) ==
    IF Less(a, b) THEN [neg |-> TRUE, mag |-> Sub(b, a)]
                  ELSE [neg |-> FALSE, mag |-> Sub(a, b)]

\* ------------------------------------------------------- small rationals
RatSub(p, q) == <<p[1] * q[2] - q[1] * p[2], p[2] * q[2]>>
\* p / q for q > 0
RatDiv(p, q) == <<p[1] * q[2], p[2] * q[1]>>
RatNeg(p) == <<0 - p[1], p[2]>>
RatLt(p, q) == p[1] * q[2] < q[1] * p[2]
RatLe(p, q) == p[1] * q[2] <= q[1] * p[2]

\* --------------------------------------------------------------- inputs
\* Best bid / best ask of a row, <<bid_px, ask_px>>, bid below ask.
Quotes == { << <<995, 10>>, <<100, 1>> >>,
            << <<999, 10>>, <<100, 1>> >>,
            << <<101, 1>>, <<1011, 10>> >> }
\* Model probabilities P(label = 1) attached to a row (df['prob']).
Probs == { <<3, 10>>, <<4, 10>>, <<6, 10>>, <<7, 10>> }
\* Milliseconds between the timestamps of successive rows (df is sorted by
\* timestamp, so never negative): a snapshot every 2.5 minutes.
Deltas == {150000}

\* ------------------------------------------------- strategy parameters
fee_rate == <<25, 100000>>
buy_threshold == <<6, 10>>
stop_loss == <<5, 1000>>
take_profit == <<1, 100>>
max_hold_time == 300000
\* The share of cash a BUY spends ("Leave buffer for fees").
buy_buffer == <<99, 100>>
\* The threshold of the signal-reversal exit.
sell_threshold == <<4, 10>>
\* Starting capital, in whole currency units.
initial_cash == 10000

\* The unit of the amounts: One units make 1.0.  It holds 4 * FracLimbs
\* decimal places and, for every ask price a BUY can divide by, the
\* numerator of that price once per possible BUY.
RECURSIVE TimesPowers(_, _)
TimesPowers(a, S) ==
    IF S = {} THEN a
    ELSE LET n == CHOOSE x \in S : TRUE
             pw[k \in 0..MaxBuys] ==
                 IF k = 0 THEN a ELSE MulSmall(pw[k - 1], n)
         IN  TimesPowers(pw[MaxBuys], S \ {n})
One ==
    TimesPowers(SubSeq([k \in 1..NLimbs |-> IF k = FracLimbs + 1 THEN 1 ELSE 0],
                       1, NLimbs),
                {q[2][1] : q \in Quotes})
\* The amount n/d for small naturals n, d.
Amt(n, d) == DivSmall(MulSmall(One, n), d)

\* ---------------------------------------------------------------- state
VARIABLES
    pc,            \* "loop": in the for loop; "final": at Final Close; "done"
    nrows,         \* rows iterated so far (len(df) once the loop has ended)
    row,           \* the current row of df (df.iloc[-1] once the loop has ended)
    position,      \* 0: Flat, 1: Long
    entry_price,
    entry_time,
    cash,
    holdings,
    size,          \* the local `size`, which outlives the iteration that set it
    trades,
    equity_curve,
    exact,         \* every amount computed so far is exact
    df,            \* the rows run_backtest iterates, when they are fixed in
                   \* advance (SpecRuns); Spec draws each row as it is reached
    run,           \* 1: the first call of run_backtest; 2: a second call
    first,         \* what the first call returned, once a second has begun
    book,          \* compute_features: the snapshots received (its df)
    called,        \* compute_features has been called on book
    inference,     \* compute_features: the mode of the last call
    features,      \* compute_features: the frame the last call returned
    polars         \* what the data-frame library leaves open: std1, the
                   \* rolling_std of a window with a single sample (sample
                   \* std, ddof = 1), and stable, whether sort keeps rows
                   \* of equal keys in their input order
VARIABLES
    latest_book,   \* HyperliquidConnector.latest_book
    lock,          \* HyperliquidConnector.lock: "free", or the thread holding it
    running,       \* HyperliquidConnector.running
    ws,            \* HyperliquidConnector.ws: "none", "open" or "closed"
    wpc,           \* the websocket thread's position in on_message
    content,       \* on_message: its local content
    arrived,       \* the messages on_message has been called with
    accepted,      \* the contents assigned to latest_book, in order
    lpc,           \* the position of LiveEngine.run
    ticks,         \* the iterations of the polling loop begun
    polled_book,   \* run: its local book
    features_df,   \* run: its local features_df
    signals,       \* the Price / Prob / Signal lines logged by run
    exc,           \* the exception that ended the polling loop
    model          \* LiveEngine.scaler and LiveEngine.model: the probability
                   \* predicted for each feature vector
VARIABLES
    models_dir,    \* which artifacts models_dir holds: lr_model_*.pkl, scaler_*.pkl
    loads,         \* the calls of load_latest_model / load_model made
    raised,        \* the exception run_backtest has raised, "none" if none
    dpc,           \* the position of HyperliquidClient.get_l2_snapshot
    attempt,       \* get_l2_snapshot: its loop variable attempt
    gets,          \* the calls of session.get made
    outcome,       \* the outcome of the last session.get
    backoff,       \* the last value of _calculate_backoff, in milliseconds
    result         \* what get_l2_snapshot returned or raised

\* The locals of run_backtest.
sim_vars == <<pc, nrows, row, position, entry_price, entry_time, cash,
              holdings, size, trades, equity_curve, exact>>
\* The calls of run_backtest on one frame.
runs_vars == <<df, run, first>>
\* The feature calculator.
feature_vars == <<book, called, inference, features, polars>>
\* The live connector and engine.
connector_vars == <<latest_book, lock, running, ws, wpc, content, arrived,
                    accepted>>
engine_vars == <<lpc, ticks, polled_book, features_df, signals, exc, model>>
live_vars == <<connector_vars, engine_vars>>
\* The model artifacts and their loading.
load_vars == <<models_dir, loads, raised>>
\* The REST client.
download_vars == <<dpc, attempt, gets, outcome, backoff, result>>
aux_vars == <<load_vars, download_vars>>

vars == <<pc, nrows, row, position, entry_price, entry_time, cash, holdings,
          size, trades, equity_curve, exact, df, run, first, book, called,
          inference, features, polars, live_vars, aux_vars>>

\* No call has returned yet.
NoResult == <<>>

\* The loop variable before the first iteration; only its timestamp, the
\* origin of time, is ever read.
NoRow == [timestamp |-> 0, bid_px |-> <<0, 1>>, ask_px |-> <<0, 1>>,
          prob |-> <<0, 1>>]

\* The rows that can follow the current one in df.
NextRows ==
    {[timestamp |-> row.timestamp + d, bid_px |-> q[1], ask_px |-> q[2],
      prob |-> p] : d \in Deltas, q \in Quotes, p \in Probs}

\* Python's None.
None == <<>>
\* Before a LiveEngine is constructed.
LiveIdle ==
    /\ latest_book = None
    /\ lock = "free"
    /\ running = FALSE
    /\ ws = "none"
    /\ wpc = "idle"
    /\ content = None
    /\ arrived = <<>>
    /\ accepted = <<>>
    /\ lpc = "start"
    /\ ticks = 0
    /\ polled_book = None
    /\ features_df = None
    /\ signals = <<>>
    /\ exc = "none"
    /\ model = <<>>
\* The artifacts are in place; no REST client is in use.
AuxIdle ==
    /\ models_dir = [model |-> TRUE, scaler |-> TRUE]
    /\ loads = 0
    /\ raised = "none"
    /\ dpc = "idle"
    /\ attempt = 0
    /\ gets = 0
    /\ outcome = "none"
    /\ backoff = 0
    /\ result = "none"

Init ==
    /\ pc = "loop"
    /\ nrows = 0
    /\ row = NoRow
    /\ position = 0
    /\ entry_price = <<0, 1>>
    /\ entry_time = -1
    /\ cash = Amt(initial_cash, 1)
    /\ holdings = Zero
    /\ size = Unbound
    /\ trades = <<>>
    /\ equity_curve = <<>>
    /\ exact = TRUE
    /\ df = <<>>
    /\ run = 1
    /\ first = NoResult
    /\ book = <<>>
    /\ called = FALSE
    /\ inference = FALSE
    /\ features = <<>>
    /\ polars = <<>>
    /\ LiveIdle
    /\ AuxIdle

\* ------------------------------------------------- the loop's expressions
\* Mutant of MarkToMarket: the open position is left out of the valuation.
MarkToMarketCashOnly(c, h, bid) == c

\* current_equity = cash + (holdings * row['bid_px'] if holdings > 0 else 0)
MarkToMarket(c, h, bid) ==
    IF Less(Zero, h) THEN Add(c, MulRat(h, bid)) ELSE c

\* Mutant of EquityPoint: the point is stamped with the time of the row
\* before (current_time read before the loop variable is advanced).
EquityPointStale(r, c, h) ==
    [time |-> row.timestamp, equity |-> MarkToMarket(c, h, r.bid_px)]

\* equity_curve.append({'time': current_time, 'equity': current_equity})
EquityPoint(r, c, h) ==
    [time |-> r.timestamp, equity |-> MarkToMarket(c, h, r.bid_px)]

\* Mutant of IsFlat: `if position >= 0`, so the entry branch is also taken
\* while LONG.
IsFlatLoose(p) == p >= 0

\* Mutant of IsLong: `if position >= 0`, so Final Close liquidates whatever
\* the position.
IsLongLoose(p) == p >= 0

\* if position == 0: ... elif position == 1:
IsFlat(p) == p = 0
IsLong(p) == p = 1

\* Mutant of EnterSignal: row['prob'] >= buy_threshold.
EnterSignalInclusive(prob) == RatLe(buy_threshold, prob)

\* row['prob'] > buy_threshold
EnterSignal(prob) == RatLt(buy_threshold, prob)

\* buy_price = row['ask_px'] ("Assume fill at Ask")
BuyPrice(r) == r.ask_px

\* Mutant of SellPrice: the exit is filled at the ask.
SellPriceAsk(r) == r.ask_px

\* sell_price = row['bid_px']
SellPrice(r) == r.bid_px

\* Mutant of BuySize: size = cash / buy_price, the fee buffer forgotten.
BuySizeNoBuffer(c, px) == DivRat(c, px)

\* Mutant of BuySize: a buffer of 0.9999, smaller than the fee it is meant
\* to leave room for.
BuySizeThinBuffer(c, px) == DivRat(MulRat(c, <<9999, 10000>>), px)

\* size = (cash * 0.99) / buy_price
BuySize(c, px) == DivRat(MulRat(c, buy_buffer), px)

\* cost = size * buy_price ; revenue = holdings * sell_price
Notional(qty, px) == MulRat(qty, px)

\* fee = cost * self.fee_rate ; fee = revenue * self.fee_rate
Fee(amount) == MulRat(amount, fee_rate)

\* pct_change = (row['bid_px'] - entry_price) / entry_price
PctChange(bid, entry) == RatDiv(RatSub(bid, entry), entry)

\* Mutant of ExitReason: the holding-time rule is tested first.
ExitReasonTimeFirst(pct, held, prob) ==
    IF held >= max_hold_time THEN "Time"
    ELSE IF RatLe(take_profit, pct) THEN "TP"
    ELSE IF RatLe(pct, RatNeg(stop_loss)) THEN "SL"
    ELSE IF RatLt(prob, sell_threshold) THEN "Signal"
    ELSE ""

\* Mutant of ExitReason: the stop-loss boundary is exclusive
\* (pct_change < -stop_loss).
ExitReasonStrictSL(pct, held, prob) ==
    IF RatLe(take_profit, pct) THEN "TP"
    ELSE IF RatLt(pct, RatNeg(stop_loss)) THEN "SL"
    ELSE IF held >= max_hold_time THEN "Time"
    ELSE IF RatLt(prob, sell_threshold) THEN "Signal"
    ELSE ""

\* The if / elif chain of the exit conditions: the reason set, "" when
\* exit_signal stays False.
ExitReason(pct, held, prob) ==
    IF RatLe(take_profit, pct) THEN "TP"
    ELSE IF RatLe(pct, RatNeg(stop_loss)) THEN "SL"
    ELSE IF held >= max_hold_time THEN "Time"
    ELSE IF RatLt(prob, sell_threshold) THEN "Signal"
    ELSE ""

\* 'size': holdings -- read after `holdings = 0.0` ("this is 0 now")
SellSize(h_before, h_after) == h_after

\* 'pnl': revenue - fee - (entry_price * size + (entry_price * size * fee_rate))
Pnl(rev, sell_fee, entry, qty) ==
    SignedSub(Sub(rev, sell_fee),
              Add(Notional(qty, entry), Fee(Notional(qty, entry))))

\* Mutant of AppendTrade: a SELL is written over the BUY it closes.
AppendTradeAmend(ledger, t) ==
    IF t.side = "SELL" /\ ledger # <<>>
    THEN [ledger EXCEPT ![Len(ledger)] = t]
    ELSE Append(ledger, t)

\* trades.append({...})
AppendTrade(ledger, t) == Append(ledger, t)

\* ------------------------------------------------------------- exactness
Fits(a) == a[NLimbs] = 0
BuyExact(c, px) ==
    /\ MulRatExact(c, buy_buffer)
    /\ DivRatExact(MulRat(c, buy_buffer), px)
    /\ MulRatExact(BuySize(c, px), px)
    /\ MulRatExact(Notional(BuySize(c, px), px), fee_rate)
SellExact(h, px) ==
    /\ MulRatExact(h, px)
    /\ MulRatExact(Notional(h, px), fee_rate)

\* ---------------------------------------------------------------- steps
\* The BUY branch.
Buy(r) ==
    LET buy_price == BuyPrice(r)
        sz == BuySize(cash, buy_price)
        cost == Notional(sz, buy_price)
        fee == Fee(cost)
    IN  /\ size' = sz
        /\ cash' = Sub(cash, Add(cost, fee))
        /\ holdings' = sz
        /\ position' = 1
        /\ entry_price' = buy_price
        /\ entry_time' = r.timestamp
        /\ trades' = AppendTrade(trades,
               [side |-> "BUY", price |-> buy_price, size |-> sz,
                time |-> r.timestamp, fee |-> fee])
        /\ exact' = (exact /\ BuyExact(cash, buy_price) /\ Fits(cash))

\* Mutant of Sell: the status is left LONG.
SellStayingLong(r, why) ==
    LET sell_price == SellPrice(r)
        revenue == Notional(holdings, sell_price)
        fee == Fee(revenue)
    IN  /\ cash' = Add(cash, Sub(revenue, fee))
        /\ holdings' = Zero
        /\ position' = 1
        /\ trades' = AppendTrade(trades,
               [side |-> "SELL", price |-> sell_price,
                size |-> SellSize(holdings, holdings'),
                time |-> r.timestamp, fee |-> fee,
                pnl |-> Pnl(revenue, fee, entry_price, size),
                reason |-> why])
        /\ exact' = (exact /\ SellExact(holdings, sell_price)
                           /\ Fits(cash) /\ Fits(cash'))
        /\ UNCHANGED <<entry_price, entry_time, size>>

\* Mutant of Sell: a row that exits with a probability above the entry
\* threshold re-enters on the same row.
SellThenReenter(r, why) ==
    LET sell_price == SellPrice(r)
        revenue == Notional(holdings, sell_price)
        fee == Fee(revenue)
        after == Add(cash, Sub(revenue, fee))
        sold == [side |-> "SELL", price |-> sell_price, size |-> Zero,
                 time |-> r.timestamp, fee |-> fee,
                 pnl |-> Pnl(revenue, fee, entry_price, size),
                 reason |-> why]
        buy_price == BuyPrice(r)
        sz == BuySize(after, buy_price)
        cost == Notional(sz, buy_price)
    IN  IF EnterSignal(r.prob)
        THEN /\ cash' = Sub(after, Add(cost, Fee(cost)))
             /\ holdings' = sz
             /\ size' = sz
             /\ position' = 1
             /\ entry_price' = buy_price
             /\ entry_time' = r.timestamp
             /\ trades' = Append(Append(trades, sold),
                    [side |-> "BUY", price |-> buy_price, size |-> sz,
                     time |-> r.timestamp, fee |-> Fee(cost)])
             /\ exact' = exact
        ELSE /\ cash' = after
             /\ holdings' = Zero
             /\ position' = 0
             /\ trades' = Append(trades, sold)
             /\ exact' = exact
             /\ UNCHANGED <<entry_price, entry_time, size>>

\* The SELL branch, taken when exit_signal is set.
Sell(r, why) ==
    LET sell_price == SellPrice(r)
        revenue == Notional(holdings, sell_price)
        fee == Fee(revenue)
    IN  /\ cash' = Add(cash, Sub(revenue, fee))
        /\ holdings' = Zero
        /\ position' = 0
        /\ trades' = AppendTrade(trades,
               [side |-> "SELL", price |-> sell_price,
                size |-> SellSize(holdings, holdings'),
                time |-> r.timestamp, fee |-> fee,
                pnl |-> Pnl(revenue, fee, entry_price, size),
                reason |-> why])
        /\ exact' = (exact /\ SellExact(holdings, sell_price)
                           /\ Fits(cash) /\ Fits(cash'))
        /\ UNCHANGED <<entry_price, entry_time, size>>

\* Mutant of LoopBody: the equity point is valued after the row's decision
\* has been applied.
LoopBodyMarkAfter(r) ==
    /\ pc = "loop"
    /\ nrows < MaxRows
    /\ r \in NextRows
    /\ row' = r
    /\ nrows' = nrows + 1
    /\ pc' = pc
    /\ IF IsFlat(position)
       THEN IF EnterSignal(r.prob)
            THEN Buy(r)
            ELSE UNCHANGED <<position, entry_price, entry_time, cash,
                             holdings, size, trades, exact>>
       ELSE IF IsLong(position)
       THEN LET pct_change == PctChange(r.bid_px, entry_price)
                time_held == r.timestamp - entry_time
                reason == ExitReason(pct_change, time_held, r.prob)
            IN  IF reason # ""
                THEN Sell(r, reason)
                ELSE /\ exact' = (exact /\ MulRatExact(holdings, r.bid_px))
                     /\ UNCHANGED <<position, entry_price, entry_time, cash,
                                    holdings, size, trades>>
       ELSE UNCHANGED <<position, entry_price, entry_time, cash, holdings,
                        size, trades, exact>>
    /\ equity_curve' = Append(equity_curve, EquityPoint(r, cash', holdings'))
    /\ UNCHANGED <<runs_vars, feature_vars, live_vars, aux_vars>>

\* One iteration of `for i, row in df.iterrows()` on the row r.
LoopBody(r) ==
    /\ pc = "loop"
    /\ nrows < MaxRows
    /\ r \in NextRows
    /\ row' = r
    /\ nrows' = nrows + 1
    /\ pc' = pc
    /\ equity_curve' = Append(equity_curve, EquityPoint(r, cash, holdings))
    /\ IF IsFlat(position)
       THEN IF EnterSignal(r.prob)
            THEN Buy(r)
            ELSE UNCHANGED <<position, entry_price, entry_time, cash,
                             holdings, size, trades, exact>>
       ELSE IF IsLong(position)
       THEN LET pct_change == PctChange(r.bid_px, entry_price)
                time_held == r.timestamp - entry_time
                reason == ExitReason(pct_change, time_held, r.prob)
            IN  IF reason # ""
                THEN Sell(r, reason)
                ELSE /\ exact' = (exact /\ MulRatExact(holdings, r.bid_px))
                     /\ UNCHANGED <<position, entry_price, entry_time, cash,
                                    holdings, size, trades>>
       ELSE UNCHANGED <<position, entry_price, entry_time, cash, holdings,
                        size, trades, exact>>
    /\ UNCHANGED <<runs_vars, feature_vars, live_vars, aux_vars>>

\* The iterator is exhausted (df may be empty): control reaches Final Close.
LoopEnd ==
    /\ pc = "loop"
    /\ pc' = "final"
    /\ UNCHANGED <<nrows, row, position, entry_price, entry_time, cash,
                   holdings, size, trades, equity_curve, exact>>
    /\ UNCHANGED <<runs_vars, feature_vars, live_vars, aux_vars>>

\* `# Final Close` and the return of the two data frames.
FinalClose ==
    /\ pc = "final"
    /\ pc' = "done"
    /\ IF IsLong(position)
       THEN LET sell_price == SellPrice(row)
                revenue == Notional(holdings, sell_price)
                fee == Fee(revenue)
            IN  /\ cash' = Add(cash, Sub(revenue, fee))
                /\ trades' = AppendTrade(trades,
                       [side |-> "SELL", price |-> sell_price,
                        time |-> row.timestamp, reason |-> "End"])
                /\ exact' = (exact /\ SellExact(holdings, sell_price)
                                   /\ Fits(cash') /\ Fits(cash))
       ELSE UNCHANGED <<cash, trades, exact>>
    /\ UNCHANGED <<nrows, row, position, entry_price, entry_time, holdings,
                   size, equity_curve>>
    /\ UNCHANGED <<runs_vars, feature_vars, live_vars, aux_vars>>

Next ==
    \/ \E r \in NextRows : LoopBody(r)
    \/ LoopEnd
    \/ FinalClose

Spec == Init /\ [][Next]_vars

\* Every amount the run computed is the exact value of the source's
\* expression over the reals.
Exact == exact

\* ------------------------------------------- run_backtest, called twice
\* SpecRuns fixes the frame df before the loop starts, as load_test_data
\* does, runs run_backtest over it, and then calls run_backtest a second
\* time over the first k rows of the same frame (k = len(df): the same
\* frame again).
MaxFrame == 3

\* The probabilities of the frames of SpecRuns: one below the exit
\* threshold, one above the entry threshold.
FrameProbs == { <<3, 10>>, <<7, 10>> }

\* df: rows sorted by timestamp, one every Deltas milliseconds.
MkFrame(f) ==
    [i \in 1..Len(f) |->
        [timestamp |-> i * (CHOOSE d \in Deltas : TRUE),
         bid_px |-> f[i][1][1], ask_px |-> f[i][1][2], prob |-> f[i][2]]]
Frames ==
    UNION { { MkFrame(f) : f \in [1..n -> Quotes \X FrameProbs] } :
            n \in 0..MaxFrame }

\* Mutant of CurrentRow: the row is handed over with the probability of the
\* row after it.
CurrentRowPeek(frame, i) ==
    IF i < Len(frame)
    THEN [frame[i] EXCEPT !.prob = frame[i + 1].prob]
    ELSE frame[i]

\* for i, row in df.iterrows(): the i-th row
CurrentRow(frame, i) == frame[i]

\* Mutant of NewTrades: the ledger of the call before is kept and appended
\* to.
NewTradesKept(left) == left

\* trades = [] : a new list, whatever a call before left in its own
NewTrades(left) == <<>>

InitRuns ==
    /\ pc = "loop"
    /\ nrows = 0
    /\ row = NoRow
    /\ position = 0
    /\ entry_price = <<0, 1>>
    /\ entry_time = -1
    /\ cash = Amt(initial_cash, 1)
    /\ holdings = Zero
    /\ size = Unbound
    /\ trades = <<>>
    /\ equity_curve = <<>>
    /\ exact = TRUE
    /\ df \in Frames
    /\ run = 1
    /\ first = NoResult
    /\ book = <<>>
    /\ called = FALSE
    /\ inference = FALSE
    /\ features = <<>>
    /\ polars = <<>>
    /\ LiveIdle
    /\ AuxIdle

\* One iteration of the loop over the frame.
RunRow ==
    /\ nrows < Len(df)
    /\ LoopBody(CurrentRow(df, nrows + 1))

\* The loop has iterated the whole frame.
RunEnd ==
    /\ nrows = Len(df)
    /\ LoopEnd

\* run_backtest is called again, over the first k rows of the frame: the
\* locals are initialised anew and nothing else is read.
Again(k) ==
    /\ pc = "done"
    /\ run = 1
    /\ first' = [df |-> df, equity_curve |-> equity_curve, trades |-> trades]
    /\ df' = SubSeq(df, 1, k)
    /\ run' = 2
    /\ pc' = "loop"
    /\ nrows' = 0
    /\ row' = NoRow
    /\ position' = 0
    /\ entry_price' = <<0, 1>>
    /\ entry_time' = -1
    /\ cash' = Amt(initial_cash, 1)
    /\ holdings' = Zero
    /\ size' = Unbound
    /\ trades' = NewTrades(trades)
    /\ equity_curve' = <<>>
    /\ UNCHANGED <<exact, feature_vars, live_vars, aux_vars>>

NextRuns ==
    \/ RunRow
    \/ RunEnd
    \/ FinalClose
    \/ \E k \in 0..Len(df) : Again(k)

SpecRuns == InitRuns /\ [][NextRuns]_vars

\* ======================================================================
\* FeatureCalculator.compute_features        (src/src/features/calculator.py)
\*
\* A cell of a column is a rational <<n, d>> (a Float64 that the source's
\* expression gives exactly), or Null.  A cell n/0 is a non-finite float
\* (NaN, inf).  volatility_5m is held as its square, the sample variance,
\* <<limbs, c * (c - 1)>>: the numerator in VLimbs limbs of base VBase,
\* least significant first, in units of RetScale^-2, over c * (c - 1) for a
\* window of c samples.  The square root is one-to-one on the non-negative
\* numbers, so equal cells are equal volatilities and a zero cell is a zero
\* volatility.  The columns levels, bids, asks and coin are carried through
\* unchanged by the source and are left out of the rows.
\* ======================================================================
MaxSnaps == 12
\* At most MaxMoves times is a snapshot of book different from the one
\* before it.
MaxMoves == 1

Null == <<>>
VBase == 1000
ZeroVar == <<0, 0, 0, 0, 0>>
\* The literal 0 of fill_null(0), in a Float64 column and in volatility_5m.
ZeroCell == <<0, 1>>
ZeroVol == <<ZeroVar, 1>>
NonFiniteVol == <<ZeroVar, 0>>
\* The outcomes of the sample standard deviation of one sample, which
\* divides by c - 1 = 0: 0.0 (or a null, which fill_null(0) turns into 0.0)
\* or a non-finite float, depending on the library.
OneSampleStd == {ZeroVol, NonFiniteVol}

\* levels = [[bids], [asks]], each side a list of {px: str, sz: str}; the
\* strings are decimal digits.  Mid prices 500, 500.5 and 501: a move of
\* exactly 0.1% and moves above it.
BookLevels ==
    { << << [px |-> <<4, 9, 9>>, sz |-> <<1>>] >>,
         << [px |-> <<5, 0, 1>>, sz |-> <<3>>] >> >>,
      << << [px |-> <<5, 0, 0>>, sz |-> <<2>>] >>,
         << [px |-> <<5, 0, 1>>, sz |-> <<2>>] >> >>,
      << << [px |-> <<5, 0, 0>>, sz |-> <<3>>] >>,
         << [px |-> <<5, 0, 2>>, sz |-> <<1>>] >> >> }

RatAdd(p, q) == <<p[1] * q[2] + q[1] * p[2], p[2] * q[2]>>
RatMul(p, q) == <<p[1] * q[1], p[2] * q[2]>>

\* .cast(pl.Float64) of a string of decimal digits
RECURSIVE ParseDigits(_, _)
ParseDigits(str, k) ==
    IF k = 0 THEN 0 ELSE 10 * ParseDigits(str, k - 1) + str[k]
CastFloat64(str) == <<ParseDigits(str, Len(str)), 1>>

\* Lines 39-51: best bid / ask price and size.
ExtractBest(data) ==
    CHOOSE out \in
        { [i \in 1..Len(x) |->
              [timestamp |-> x[i].timestamp,
               bid_px |-> CastFloat64(x[i].levels[1][1].px),
               bid_sz |-> CastFloat64(x[i].levels[1][1].sz),
               ask_px |-> CastFloat64(x[i].levels[2][1].px),
               ask_sz |-> CastFloat64(x[i].levels[2][1].sz)]] :
          x \in {data} } : TRUE

\* (bid_px + ask_px) / 2
MidPrice(r) == RatDiv(RatAdd(r.bid_px, r.ask_px), <<2, 1>>)
\* ask_px - bid_px
Spread(r) == RatSub(r.ask_px, r.bid_px)
\* Mutant of Imbalance: 0 when there is no size on either side.
ImbalanceGuarded(r) ==
    IF RatAdd(r.bid_sz, r.ask_sz)[1] = 0 THEN ZeroCell
    ELSE RatDiv(RatSub(r.bid_sz, r.ask_sz), RatAdd(r.bid_sz, r.ask_sz))
\* (bid_sz - ask_sz) / (bid_sz + ask_sz)
Imbalance(r) == RatDiv(RatSub(r.bid_sz, r.ask_sz), RatAdd(r.bid_sz, r.ask_sz))
\* (bid_px * ask_sz + ask_px * bid_sz) / (bid_sz + ask_sz)
Wmp(r) ==
    RatDiv(RatAdd(RatMul(r.bid_px, r.ask_sz), RatMul(r.ask_px, r.bid_sz)),
           RatAdd(r.bid_sz, r.ask_sz))

\* Lines 54-66: the instantaneous features.
PriceFeatures(data) ==
    CHOOSE out \in
        { [i \in 1..Len(x) |->
              [timestamp |-> x[i].timestamp,
               bid_px |-> x[i].bid_px, bid_sz |-> x[i].bid_sz,
               ask_px |-> x[i].ask_px, ask_sz |-> x[i].ask_sz,
               mid_price |-> MidPrice(x[i]),
               spread |-> Spread(x[i]),
               imbalance_1 |-> Imbalance(x[i]),
               wmp |-> Wmp(x[i])]] :
          x \in {data} } : TRUE

\* df.sort("timestamp"): maintain_order is not passed, so the library
\* promises the order of the keys only.  Rows of equal timestamps come out
\* in their input order (stable) or the other way round.
RECURSIVE InsertByTime(_, _, _)
InsertByTime(sorted, r, stable) ==
    IF sorted = <<>> THEN <<r>>
    ELSE IF \/ sorted[Len(sorted)].timestamp < r.timestamp
            \/ stable /\ sorted[Len(sorted)].timestamp = r.timestamp
    THEN Append(sorted, r)
    ELSE CHOOSE out \in
             { Append(InsertByTime(x, r, stable), sorted[Len(sorted)]) :
               x \in {SubSeq(sorted, 1, Len(sorted) - 1)} } : TRUE
RECURSIVE SortFrom(_, _, _)
SortFrom(x, k, stable) ==
    IF k = 0 THEN <<>>
    ELSE CHOOSE out \in
             { InsertByTime(y, x[k], stable) :
               y \in {SortFrom(x, k - 1, stable)} } : TRUE
SortByTimestamp(data, stable) ==
    CHOOSE out \in { SortFrom(x, Len(x), stable) : x \in {data} } : TRUE

\* pl.col("mid_price").pct_change(): x / x.shift(1) - 1
PctChangeOf(cur, prev) == RatSub(RatDiv(cur, prev), <<1, 1>>)

\* Mutant of Returns: the change to the next row (a shift by -1), null on
\* the last row.
ReturnsForward(data) ==
    CHOOSE out \in
        { [i \in 1..Len(x) |->
              [returns |-> IF i = Len(x) THEN Null
                           ELSE PctChangeOf(x[i + 1].mid_price, x[i].mid_price)]
              @@ x[i]] :
          x \in {data} } : TRUE

\* Lines 73-75: the returns column, null on the first row.
Returns(data) ==
    CHOOSE out \in
        { [i \in 1..Len(x) |->
              [returns |-> IF i = 1 THEN Null
                           ELSE PctChangeOf(x[i].mid_price, x[i - 1].mid_price)]
              @@ x[i]] :
          x \in {data} } : TRUE

\* The common denominator of the returns that BookLevels can produce.
RECURSIVE Gcd(_, _)
Gcd(a, b) == IF b = 0 THEN a ELSE Gcd(b, a % b)
RECURSIVE LcmOf(_)
LcmOf(S) ==
    IF S = {} THEN 1
    ELSE CHOOSE m \in { (n \div Gcd(n, rest)) * rest :
                        n \in {CHOOSE n \in S : TRUE},
                        rest \in {LcmOf(S \ {CHOOSE n \in S : TRUE})} } : TRUE
BookMids ==
    { MidPrice([bid_px |-> CastFloat64(lv[1][1].px),
                ask_px |-> CastFloat64(lv[2][1].px)]) : lv \in BookLevels }
RetScale == LcmOf({ PctChangeOf(a, b)[2] : a \in BookMids, b \in BookMids })
\* A return as a whole number of RetScale-ths.
Scaled(r) == r[1] * (RetScale \div r[2])

\* The non-null returns among the window_size = 5 rows ending at row i.
Samples(x, i) ==
    CHOOSE out \in
        { [k \in 1..Len(w) |-> Scaled(w[k].returns)] :
          w \in { SelectSeq(SubSeq(x, IF i > 5 THEN i - 4 ELSE 1, i),
                            LAMBDA r : r.returns # Null) } } : TRUE

\* c * sum(x^2) - sum(x)^2 = the sum over the pairs i < j of (x_i - x_j)^2,
\* each difference split as h * VBase + l; part 0, 1, 2 is the coefficient
\* of VBase^0, VBase^1, VBase^2.
PairTerm(xs, k, part) ==
    LET n == Len(xs)
        i == ((k - 1) \div n) + 1
        j == ((k - 1) % n) + 1
        d == IF xs[i] >= xs[j] THEN xs[i] - xs[j] ELSE xs[j] - xs[i]
        h == d \div VBase
        l == d % VBase
    IN  IF i >= j THEN 0
        ELSE IF part = 0 THEN l * l
        ELSE IF part = 1 THEN 2 * h * l
        ELSE h * h
RECURSIVE PairSum(_, _, _)
PairSum(xs, k, part) ==
    IF k = 0 THEN 0 ELSE PairTerm(xs, k, part) + PairSum(xs, k - 1, part)
Carry(c0, c1, c2) ==
    LET k1 == c1 + (c0 \div VBase)
        k2 == c2 + (k1 \div VBase)
        k3 == k2 \div VBase
    IN  <<c0 % VBase, k1 % VBase, k2 % VBase, k3 % VBase, k3 \div VBase>>
VarNum(xs) ==
    CHOOSE v \in
        { Carry(a, b, c) :
          a \in {PairSum(xs, Len(xs) * Len(xs), 0)},
          b \in {PairSum(xs, Len(xs) * Len(xs), 1)},
          c \in {PairSum(xs, Len(xs) * Len(xs), 2)} } : TRUE

\* pl.col("returns").rolling_std(window_size=5, min_periods=...) at row i:
\* null with fewer than min_periods non-null returns in the window, else
\* the sample standard deviation of those there are.
RollingStd(x, i, min_periods, one) ==
    CHOOSE v \in
        { IF Len(xs) < min_periods THEN Null
          ELSE IF Len(xs) = 1 THEN one
          ELSE <<VarNum(xs), Len(xs) * (Len(xs) - 1)>> :
          xs \in {Samples(x, i)} } : TRUE

\* .fill_null(0) on the volatility column
FillNullVol(cell) == IF cell = Null THEN ZeroVol ELSE cell

\* Mutant of Volatility: INFER mode sets the volatility to 0 without
\* reading the returns.
VolatilityInferFlat(data, infer, one) ==
    CHOOSE out \in
        { [i \in 1..Len(x) |->
              [volatility_5m |->
                   IF infer THEN ZeroVol ELSE RollingStd(x, i, 5, one)]
              @@ x[i]] :
          x \in {data} } : TRUE

\* Lines 81-90: volatility_5m; min_periods is the window size unless given.
Volatility(data, infer, one) ==
    CHOOSE out \in
        { [i \in 1..Len(x) |->
              [volatility_5m |->
                   IF infer THEN FillNullVol(RollingStd(x, i, 1, one))
                   ELSE RollingStd(x, i, 5, one)]
              @@ x[i]] :
          x \in {data} } : TRUE

\* Lines 39-90: the frame with its feature columns, before the target is
\* added and rows are dropped or nulls filled.
RowFeatures(data, infer, lib) ==
    Volatility(Returns(SortByTimestamp(PriceFeatures(ExtractBest(data)),
                                       lib.stable)),
               infer, lib.std1)

\* Mutant of FutureReturn: the price 4 rows ahead.
FutureReturnShort(x, i) ==
    IF i + 4 <= Len(x)
    THEN RatDiv(RatSub(x[i + 4].mid_price, x[i].mid_price), x[i].mid_price)
    ELSE Null

\* (mid_price.shift(-5) - mid_price) / mid_price, null on the last 5 rows
FutureReturn(x, i) ==
    IF i + 5 <= Len(x)
    THEN RatDiv(RatSub(x[i + 5].mid_price, x[i].mid_price), x[i].mid_price)
    ELSE Null
\* Mutant of TargetOf: a move of exactly 0.1% is labelled 1.
TargetOfInclusive(fut) ==
    IF fut = Null THEN Null
    ELSE IF RatLe(<<1, 1000>>, fut) THEN <<1, 1>> ELSE <<0, 1>>
\* (future_return_5m > 0.001).cast(pl.Int32), null where it is null
TargetOf(fut) ==
    IF fut = Null THEN Null
    ELSE IF RatLt(<<1, 1000>>, fut) THEN <<1, 1>> ELSE <<0, 1>>

\* Lines 98-106: future_return_5m and target.
Target(data) ==
    CHOOSE out \in
        { [i \in 1..Len(x) |->
              [future_return_5m |-> FutureReturn(x, i),
               target |-> TargetOf(FutureReturn(x, i))]
              @@ x[i]] :
          x \in {data} } : TRUE

\* df.drop_nulls(): the rows without a null in any column (a timestamp is
\* never null).
DropNulls(data) ==
    CHOOSE out \in
        { SelectSeq(x, LAMBDA r :
                        \A f \in DOMAIN r \ {"timestamp"} : r[f] # Null) :
          x \in {data} } : TRUE

\* Mutant of FillNull: the rows with a null are dropped, as in TRAIN mode.
FillNullDropping(data) == DropNulls(data)

\* df.fill_null(0)
FillNull(data) ==
    CHOOSE out \in
        { [i \in 1..Len(x) |->
              [f \in DOMAIN x[i] |->
                  IF f # "timestamp" /\ x[i][f] = Null
                  THEN (IF f = "volatility_5m" THEN ZeroVol ELSE ZeroCell)
                  ELSE x[i][f]]] :
          x \in {data} } : TRUE

\* Lines 115-125: the columns kept.
select_cols(infer) ==
    {"timestamp", "bid_px", "ask_px", "bid_sz", "ask_sz", "mid_price",
     "spread", "imbalance_1", "wmp", "volatility_5m"}
        \cup (IF infer THEN {} ELSE {"target"})
Select(data, cols) ==
    CHOOSE out \in
        { [i \in 1..Len(x) |-> [f \in cols |-> x[i][f]]] : x \in {data} } : TRUE

\* compute_features(df, inference), with the library's one-sample standard
\* deviation and its order of equal sort keys.
compute_features(data, infer, lib) ==
    Select(IF infer
           THEN FillNull(RowFeatures(data, infer, lib))
           ELSE DropNulls(Target(RowFeatures(data, infer, lib))),
           select_cols(infer))

\* ------------------------------------------------------------ the calls
\* The number of snapshots of b that differ from the one before.
Moves(b) == Cardinality({ i \in 2..Len(b) : b[i].levels # b[i - 1].levels })

InitFeatures ==
    /\ pc = "loop"
    /\ nrows = 0
    /\ row = NoRow
    /\ position = 0
    /\ entry_price = <<0, 1>>
    /\ entry_time = -1
    /\ cash = Amt(initial_cash, 1)
    /\ holdings = Zero
    /\ size = Unbound
    /\ trades = <<>>
    /\ equity_curve = <<>>
    /\ exact = TRUE
    /\ df = <<>>
    /\ run = 1
    /\ first = NoResult
    /\ book = <<>>
    /\ called = FALSE
    /\ inference = FALSE
    /\ features = <<>>
    /\ polars \in { [std1 |-> o, stable |-> TRUE] : o \in OneSampleStd }
    /\ LiveIdle
    /\ AuxIdle

\* One more snapshot is received, one minute after the last.
Snapshot(lv) ==
    /\ Len(book) < MaxSnaps
    /\ Moves(Append(book, [levels |-> lv])) <= MaxMoves
    /\ book' = Append(book, [timestamp |-> 60000 * (Len(book) + 1),
                             levels |-> lv])
    /\ called' = FALSE
    /\ inference' = FALSE
    /\ features' = <<>>
    /\ UNCHANGED <<polars, sim_vars, runs_vars, live_vars, aux_vars>>

\* compute_features is called on the snapshots received.
ComputeFeatures(infer) ==
    /\ ~called
    /\ called' = TRUE
    /\ inference' = infer
    /\ features' = compute_features(book, infer, polars)
    /\ UNCHANGED <<book, polars, sim_vars, runs_vars, live_vars, aux_vars>>

NextFeatures ==
    \/ \E lv \in BookLevels : Snapshot(lv)
    \/ \E infer \in BOOLEAN : ComputeFeatures(infer)

SpecFeatures == InitFeatures /\ [][NextFeatures]_vars

\* ----------------------------------------- irregular snapshots, short books
\* Books of at most MaxShort snapshots in which a snapshot may carry the
\* timestamp of the one before it or have no size on either side.
MaxShort == 3

\* A snapshot whose best bid and best ask both have size "0".
ZeroSizeLevels ==
    << << [px |-> <<4, 9, 9>>, sz |-> <<0>>] >>,
       << [px |-> <<5, 0, 1>>, sz |-> <<0>>] >> >>
ShortLevels == BookLevels \cup {ZeroSizeLevels}

InitShort ==
    /\ pc = "loop"
    /\ nrows = 0
    /\ row = NoRow
    /\ position = 0
    /\ entry_price = <<0, 1>>
    /\ entry_time = -1
    /\ cash = Amt(initial_cash, 1)
    /\ holdings = Zero
    /\ size = Unbound
    /\ trades = <<>>
    /\ equity_curve = <<>>
    /\ exact = TRUE
    /\ df = <<>>
    /\ run = 1
    /\ first = NoResult
    /\ book = <<>>
    /\ called = FALSE
    /\ inference = FALSE
    /\ features = <<>>
    /\ polars \in [std1 : OneSampleStd, stable : BOOLEAN]
    /\ LiveIdle
    /\ AuxIdle

\* One more snapshot is received: a minute after the last, or (same = TRUE)
\* with the timestamp of the last; at most two snapshots share a timestamp.
ShortSnapshot(lv, same) ==
    /\ Len(book) < MaxShort
    /\ same => /\ Len(book) >= 1
               /\ Len(book) >= 2 =>
                      book[Len(book) - 1].timestamp # book[Len(book)].timestamp
    /\ book' = Append(book,
                      [timestamp |->
                           IF book = <<>> THEN 60000
                           ELSE IF same THEN book[Len(book)].timestamp
                           ELSE book[Len(book)].timestamp + 60000,
                       levels |-> lv])
    /\ called' = FALSE
    /\ inference' = FALSE
    /\ features' = <<>>
    /\ UNCHANGED <<polars, sim_vars, runs_vars, live_vars, aux_vars>>

NextShort ==
    \/ \E lv \in ShortLevels, same \in BOOLEAN : ShortSnapshot(lv, same)
    \/ \E infer \in BOOLEAN : ComputeFeatures(infer)

SpecShort == InitShort /\ [][NextShort]_vars

\* ======================================================================
\* HyperliquidConnector (src/live/connector.py) and LiveEngine
\* (src/live/engine.py): the websocket thread calls on_message, the engine's
\* thread runs the polling loop of run, and a third thread may call
\* connector.stop().
\* ======================================================================
\* At most MaxMsgs messages arrive and the polling loop begins at most
\* MaxTicks iterations.
MaxMsgs == 3
MaxTicks == 2

\* HyperliquidConnector.coin
coin == "SOL"
\* The levels of the messages: a book with both sides and one with the bid
\* side only.
LiveLevels == { lv \in BookLevels : lv[1][1].px = <<4, 9, 9>> }
BidsOnly == << << [px |-> <<4, 9, 9>>, sz |-> <<1>>] >> >>
\* json.loads(message) of the messages that arrive; "time" is set on
\* arrival.
\* A message that json.loads rejects.
NotJson == [error |-> "JSONDecodeError"]
Messages ==
    { [channel |-> "l2Book", data |-> [coin |-> c, levels |-> lv]] :
          c \in {coin}, lv \in LiveLevels \cup {BidsOnly} }
    \cup { [channel |-> "l2Book", data |-> [coin |-> "ETH", levels |-> lv]] :
               lv \in LiveLevels }
    \cup { [channel |-> "trades", data |-> [coin |-> coin, levels |-> lv]] :
               lv \in LiveLevels }
    \cup {NotJson}

\* Mutant of Accepts: the coin is not compared.
AcceptsAnyCoin(m) == m # NotJson /\ m.channel = "l2Book"
\* on_message, lines 23-30: json.loads succeeds, the channel is l2Book and
\* the coin is the connector's.
Accepts(m) == m # NotJson /\ m.channel = "l2Book" /\ m.data.coin = coin

\* LiveEngine.process_snapshot(book_data)
process_snapshot(book_data, lib) ==
    IF book_data.levels = None \/ Len(book_data.levels) < 2
    THEN None
    ELSE FillNull(compute_features(
                      << [timestamp |-> book_data.time,
                          levels |-> book_data.levels] >>,
                      TRUE, lib))

\* run, lines 105-111: the feature columns handed to the scaler.
drop_cols == {"timestamp", "coin", "target"}
FeatureVector(pdf) == [f \in (DOMAIN pdf[1]) \ drop_cols |-> pdf[1][f]]
\* The feature vectors of the snapshots that can arrive.
LiveVectors ==
    { FeatureVector(process_snapshot([coin |-> coin, time |-> 0,
                                      levels |-> lv],
                                     [std1 |-> ZeroVol, stable |-> TRUE])) :
          lv \in LiveLevels }
\* The probabilities a model gives: below 0.4, between, above 0.6.
LiveProbs == {<<3, 10>>, <<5, 10>>, <<7, 10>>}
\* run, lines 118-122
SignalOf(prob) ==
    IF RatLt(<<6, 10>>, prob) THEN "BUY"
    ELSE IF RatLt(prob, <<4, 10>>) THEN "SELL"
    ELSE "HOLD"

\* A LiveEngine has been constructed: load_model has loaded a model and a
\* scaler.  The frames of process_snapshot have a single row, for which the
\* library's open choices make no difference.
InitLive ==
    /\ pc = "loop"
    /\ nrows = 0
    /\ row = NoRow
    /\ position = 0
    /\ entry_price = <<0, 1>>
    /\ entry_time = -1
    /\ cash = Amt(initial_cash, 1)
    /\ holdings = Zero
    /\ size = Unbound
    /\ trades = <<>>
    /\ equity_curve = <<>>
    /\ exact = TRUE
    /\ df = <<>>
    /\ run = 1
    /\ first = NoResult
    /\ book = <<>>
    /\ called = FALSE
    /\ inference = FALSE
    /\ features = <<>>
    /\ polars = [std1 |-> ZeroVol, stable |-> TRUE]
    /\ latest_book = None
    /\ lock = "free"
    /\ running = FALSE
    /\ ws = "none"
    /\ wpc = "idle"
    /\ content = None
    /\ arrived = <<>>
    /\ accepted = <<>>
    /\ lpc = "start"
    /\ ticks = 0
    /\ polled_book = None
    /\ features_df = None
    /\ signals = <<>>
    /\ exc = "none"
    /\ model \in [LiveVectors -> LiveProbs]
    /\ AuxIdle

\* ----------------------------------------------- the websocket thread
\* on_message, lines 22-30 and 33-34: the message is parsed and filtered by
\* channel and coin; the exception of a message that does not parse is
\* caught and logged.
OnMessage(m) ==
    /\ ws = "open"
    /\ wpc = "idle"
    /\ Len(arrived) < MaxMsgs
    /\ arrived' = Append(arrived, m)
    /\ IF Accepts(m)
       THEN /\ content' = [time |-> 1000 * (Len(arrived) + 1)] @@ m.data
            /\ wpc' = "lock"
       ELSE UNCHANGED <<content, wpc>>
    /\ UNCHANGED <<latest_book, lock, running, ws, accepted>>
    /\ UNCHANGED <<engine_vars, sim_vars, runs_vars, feature_vars, aux_vars>>

\* on_message, line 31: with self.lock
WsLock ==
    /\ wpc = "lock"
    /\ lock = "free"
    /\ lock' = "ws"
    /\ wpc' = "store"
    /\ UNCHANGED <<latest_book, running, ws, content, arrived, accepted>>
    /\ UNCHANGED <<engine_vars, sim_vars, runs_vars, feature_vars, aux_vars>>

\* Mutant of WsStore: the levels of the book stored before are kept.
WsStoreMixed ==
    /\ wpc = "store"
    /\ latest_book' = IF latest_book = None THEN content
                      ELSE [content EXCEPT !.levels = latest_book.levels]
    /\ accepted' = Append(accepted, content)
    /\ lock' = "free"
    /\ wpc' = "idle"
    /\ content' = None
    /\ UNCHANGED <<running, ws, arrived>>
    /\ UNCHANGED <<engine_vars, sim_vars, runs_vars, feature_vars, aux_vars>>

\* on_message, line 32: self.latest_book = content, and the lock is
\* released.
WsStore ==
    /\ wpc = "store"
    /\ latest_book' = content
    /\ accepted' = Append(accepted, content)
    /\ lock' = "free"
    /\ wpc' = "idle"
    /\ content' = None
    /\ UNCHANGED <<running, ws, arrived>>
    /\ UNCHANGED <<engine_vars, sim_vars, runs_vars, feature_vars, aux_vars>>

\* ------------------------------------------------ the engine's thread
\* run, lines 90-91: connector.start() creates the websocket and starts its
\* thread.
Start ==
    /\ lpc = "start"
    /\ running' = TRUE
    /\ ws' = "open"
    /\ lpc' = "poll"
    /\ UNCHANGED <<latest_book, lock, wpc, content, arrived, accepted>>
    /\ UNCHANGED <<ticks, polled_book, features_df, signals, exc, model>>
    /\ UNCHANGED <<sim_vars, runs_vars, feature_vars, aux_vars>>

\* run, line 95, get_latest_book, line 77: with self.lock
GetLock ==
    /\ lpc = "poll"
    /\ ticks < MaxTicks
    /\ lock = "free"
    /\ lock' = "engine"
    /\ ticks' = ticks + 1
    /\ lpc' = "read"
    /\ UNCHANGED <<latest_book, running, ws, wpc, content, arrived, accepted>>
    /\ UNCHANGED <<polled_book, features_df, signals, exc, model>>
    /\ UNCHANGED <<sim_vars, runs_vars, feature_vars, aux_vars>>

\* Mutant of GetRead: the read takes the stored snapshot away.
GetReadConsuming ==
    /\ lpc = "read"
    /\ polled_book' = latest_book
    /\ latest_book' = None
    /\ lock' = "free"
    /\ lpc' = IF latest_book # None THEN "process" ELSE "sleep"
    /\ UNCHANGED <<running, ws, wpc, content, arrived, accepted>>
    /\ UNCHANGED <<ticks, features_df, signals, exc, model>>
    /\ UNCHANGED <<sim_vars, runs_vars, feature_vars, aux_vars>>

\* Mutant of GetRead: the lock is kept after the read.
GetReadHolding ==
    /\ lpc = "read"
    /\ polled_book' = latest_book
    /\ lpc' = IF latest_book # None THEN "process" ELSE "sleep"
    /\ UNCHANGED <<latest_book, lock, running, ws, wpc, content, arrived,
                   accepted>>
    /\ UNCHANGED <<ticks, features_df, signals, exc, model>>
    /\ UNCHANGED <<sim_vars, runs_vars, feature_vars, aux_vars>>

\* get_latest_book, line 78: return self.latest_book; run, lines 96 and
\* 126-127: without a book the iteration only logs.
GetRead ==
    /\ lpc = "read"
    /\ polled_book' = latest_book
    /\ lock' = "free"
    /\ lpc' = IF latest_book # None THEN "process" ELSE "sleep"
    /\ UNCHANGED <<latest_book, running, ws, wpc, content, arrived, accepted>>
    /\ UNCHANGED <<ticks, features_df, signals, exc, model>>
    /\ UNCHANGED <<sim_vars, runs_vars, feature_vars, aux_vars>>

\* run, line 98: features_df = self.process_snapshot(book)
ProcessSnapshot ==
    /\ lpc = "process"
    /\ features_df' = process_snapshot(polled_book, polars)
    /\ lpc' = "infer"
    /\ UNCHANGED <<ticks, polled_book, signals, exc, model>>
    /\ UNCHANGED <<connector_vars, sim_vars, runs_vars, feature_vars, aux_vars>>

\* run, lines 102-124: features_df.to_pandas() raises AttributeError on
\* None; otherwise the features are scaled, the probability predicted, the
\* signal derived and the line logged.
Infer ==
    /\ lpc = "infer"
    /\ IF features_df = None
       THEN /\ exc' = "AttributeError"
            /\ lpc' = "finally"
            /\ UNCHANGED signals
       ELSE /\ signals' =
                   Append(signals,
                          [price |-> features_df[1].mid_price,
                           prob |-> model[FeatureVector(features_df)],
                           signal |->
                               SignalOf(model[FeatureVector(features_df)]),
                           time |-> polled_book.time])
            /\ lpc' = "sleep"
            /\ UNCHANGED exc
    /\ UNCHANGED <<ticks, polled_book, features_df, model>>
    /\ UNCHANGED <<connector_vars, sim_vars, runs_vars, feature_vars, aux_vars>>

\* run, line 129: time.sleep(1)
Sleep ==
    /\ lpc = "sleep"
    /\ lpc' = "poll"
    /\ UNCHANGED <<ticks, polled_book, features_df, signals, exc, model>>
    /\ UNCHANGED <<connector_vars, sim_vars, runs_vars, feature_vars, aux_vars>>

\* The positions of run inside its try block.
InLoop == {"poll", "read", "process", "infer", "sleep"}

\* KeyboardInterrupt is raised in the engine's thread, anywhere in the
\* loop; a lock held by it is released by its with statement.
Interrupt ==
    /\ lpc \in InLoop
    /\ exc' = "KeyboardInterrupt"
    /\ lpc' = "finally"
    /\ lock' = IF lpc = "read" THEN "free" ELSE lock
    /\ UNCHANGED <<latest_book, running, ws, wpc, content, arrived, accepted>>
    /\ UNCHANGED <<ticks, polled_book, features_df, signals, model>>
    /\ UNCHANGED <<sim_vars, runs_vars, feature_vars, aux_vars>>

\* Mutant of Finally: the connector is stopped after a KeyboardInterrupt
\* only.
FinallyOnInterruptOnly ==
    /\ lpc = "finally"
    /\ IF exc = "KeyboardInterrupt"
       THEN running' = FALSE /\ ws' = "closed" /\ lpc' = "returned"
       ELSE UNCHANGED <<running, ws>> /\ lpc' = "raised"
    /\ UNCHANGED <<latest_book, lock, wpc, content, arrived, accepted>>
    /\ UNCHANGED <<ticks, polled_book, features_df, signals, exc, model>>
    /\ UNCHANGED <<sim_vars, runs_vars, feature_vars, aux_vars>>

\* run, lines 131-134, stop, lines 69-74: KeyboardInterrupt is caught, any
\* other exception propagates; either way connector.stop() clears running
\* and closes the websocket.
Finally ==
    /\ lpc = "finally"
    /\ running' = FALSE
    /\ ws' = "closed"
    /\ lpc' = IF exc = "KeyboardInterrupt" THEN "returned" ELSE "raised"
    /\ UNCHANGED <<latest_book, lock, wpc, content, arrived, accepted>>
    /\ UNCHANGED <<ticks, polled_book, features_df, signals, exc, model>>
    /\ UNCHANGED <<sim_vars, runs_vars, feature_vars, aux_vars>>

\* ---------------------------------------------------- another thread
\* connector.stop() is called by a thread other than the engine's while run
\* is in its loop.
Stop ==
    /\ lpc \in InLoop
    /\ running
    /\ running' = FALSE
    /\ ws' = "closed"
    /\ UNCHANGED <<latest_book, lock, wpc, content, arrived, accepted>>
    /\ UNCHANGED <<engine_vars, sim_vars, runs_vars, feature_vars, aux_vars>>

NextLive ==
    \/ \E m \in Messages : OnMessage(m)
    \/ WsLock
    \/ WsStore
    \/ Start
    \/ GetLock
    \/ GetRead
    \/ ProcessSnapshot
    \/ Infer
    \/ Sleep
    \/ Interrupt
    \/ Finally
    \/ Stop

SpecLive == InitLive /\ [][NextLive]_vars

\* The thread that runs LiveEngine.run is scheduled: a step of run that
\* stays possible is taken. Messages, the interrupt and the stop by another
\* thread may or may not happen.
RunStep ==
    Start \/ GetLock \/ GetRead \/ ProcessSnapshot \/ Infer \/ Sleep \/ Finally

SpecLiveFair == SpecLive /\ WF_vars(RunStep)

\* ------------------------------ process_snapshot on a stream of snapshots
\* The snapshots of book are received one by one (Snapshot) and
\* process_snapshot is called on the one received last, as run does with
\* the book it polled.
LatestReceived ==
    [coin |-> coin,
     time |-> book[Len(book)].timestamp,
     levels |-> book[Len(book)].levels]

ProcessLatest ==
    /\ book # <<>>
    /\ polled_book # LatestReceived
    /\ polled_book' = LatestReceived
    /\ features_df' = process_snapshot(LatestReceived, polars)
    /\ UNCHANGED <<lpc, ticks, signals, exc, model>>
    /\ UNCHANGED <<connector_vars, sim_vars, runs_vars, feature_vars, aux_vars>>

NextProcess ==
    \/ \E lv \in BookLevels : Snapshot(lv)
    \/ ProcessLatest

SpecProcess == InitFeatures /\ [][NextProcess]_vars

\* ======================================================================
\* Loading the model artifacts: Backtester.load_latest_model, called by
\* run_backtest (src/backtest/engine.py), and LiveEngine.load_model, called
\* by LiveEngine.__init__ (src/live/engine.py).  One program runs: a
\* backtest or a live engine.
\* ======================================================================
\* Mutant of Missing: both kinds of file are absent.
MissingBoth(dir) == ~dir.model /\ ~dir.scaler
\* not model_files or not scaler_files
Missing(dir) == ~dir.model \/ ~dir.scaler

InitLoad ==
    /\ nrows = 0
    /\ row = NoRow
    /\ position = 0
    /\ entry_price = <<0, 1>>
    /\ entry_time = -1
    /\ cash = Amt(initial_cash, 1)
    /\ holdings = Zero
    /\ size = Unbound
    /\ trades = <<>>
    /\ equity_curve = <<>>
    /\ exact = TRUE
    /\ df = <<>>
    /\ run = 1
    /\ first = NoResult
    /\ book = <<>>
    /\ called = FALSE
    /\ inference = FALSE
    /\ features = <<>>
    /\ polars = [std1 |-> ZeroVol, stable |-> TRUE]
    /\ latest_book = None
    /\ lock = "free"
    /\ running = FALSE
    /\ ws = "none"
    /\ wpc = "idle"
    /\ content = None
    /\ arrived = <<>>
    /\ accepted = <<>>
    /\ ticks = 0
    /\ polled_book = None
    /\ features_df = None
    /\ signals = <<>>
    /\ exc = "none"
    /\ \/ pc = "call" /\ lpc = "off" /\ model = <<>>
       \/ pc = "off" /\ lpc = "new" /\ model \in [LiveVectors -> LiveProbs]
    /\ models_dir \in [model : BOOLEAN, scaler : BOOLEAN]
    /\ loads = 0
    /\ raised = "none"
    /\ dpc = "idle"
    /\ attempt = 0
    /\ gets = 0
    /\ outcome = "none"
    /\ backoff = 0
    /\ result = "none"

\* run_backtest, lines 43-44, load_latest_model, lines 20-30: the first
\* call of run_backtest on a Backtester loads the model or raises.
LoadLatestModel ==
    /\ pc = "call"
    /\ loads' = loads + 1
    /\ IF Missing(models_dir)
       THEN pc' = "raised" /\ raised' = "FileNotFoundError"
       ELSE pc' = "loop" /\ UNCHANGED raised
    /\ UNCHANGED <<nrows, row, position, entry_price, entry_time, cash,
                   holdings, size, trades, equity_curve, exact>>
    /\ UNCHANGED <<models_dir, download_vars>>
    /\ UNCHANGED <<runs_vars, feature_vars, live_vars>>

\* LiveEngine.__init__, lines 14-22, load_model, lines 24-33: the
\* constructor loads the model or raises.
Construct ==
    /\ lpc = "new"
    /\ loads' = loads + 1
    /\ IF Missing(models_dir)
       THEN lpc' = "failed" /\ exc' = "FileNotFoundError"
       ELSE lpc' = "start" /\ UNCHANGED exc
    /\ UNCHANGED <<ticks, polled_book, features_df, signals, model>>
    /\ UNCHANGED <<models_dir, raised, download_vars>>
    /\ UNCHANGED <<connector_vars, sim_vars, runs_vars, feature_vars>>

NextLoad ==
    \/ LoadLatestModel
    \/ Construct
    \/ Next
    \/ NextLive

SpecLoad == InitLoad /\ [][NextLoad]_vars

\* ======================================================================
\* HyperliquidClient.get_l2_snapshot (api_downloader/downloader.py)
\* ======================================================================
MAX_RETRIES == 10
\* Seconds in the source; milliseconds here.
INITIAL_BACKOFF == 1000
MAX_BACKOFF == 60000

\* What one session.get can end in: a response with a status code, whose
\* body is or is not a valid LZ4 frame, or an exception of requests.
Statuses == {200, 204, 400, 404, 429, 499, 500, 503}
Response(code, ok) == [kind |-> "response", status |-> code, lz4 |-> ok]
Thrown(name) == [kind |-> name, status |-> 0, lz4 |-> FALSE]
Outcomes ==
    { Response(c, TRUE) : c \in Statuses }
        \cup { Response(200, FALSE) }
        \cup { Thrown(n) : n \in {"Timeout", "ConnectionError", "Exception"} }

\* Mutant of Branch: only status codes above 500 are server errors.
BranchServerAbove500(o) ==
    IF o.kind = "Timeout" THEN "timeout"
    ELSE IF o.kind = "ConnectionError" THEN "connection_error"
    ELSE IF o.kind # "response" THEN "unexpected"
    ELSE IF o.status = 200 THEN (IF o.lz4 THEN "ok" ELSE "corrupt")
    ELSE IF o.status = 404 THEN "not_found"
    ELSE IF o.status = 429 THEN "rate_limited"
    ELSE IF o.status > 500 THEN "server_error"
    ELSE "api_error"

\* Mutant of Branch: a 404 is retried like a rate limit.
BranchRetrying404(o) ==
    IF o.kind = "Timeout" THEN "timeout"
    ELSE IF o.kind = "ConnectionError" THEN "connection_error"
    ELSE IF o.kind # "response" THEN "unexpected"
    ELSE IF o.status = 200 THEN (IF o.lz4 THEN "ok" ELSE "corrupt")
    ELSE IF o.status \in {404, 429} THEN "rate_limited"
    ELSE IF o.status >= 500 THEN "server_error"
    ELSE "api_error"

\* The arm of the try statement of lines 82-153 an outcome runs.
Branch(o) ==
    IF o.kind = "Timeout" THEN "timeout"
    ELSE IF o.kind = "ConnectionError" THEN "connection_error"
    ELSE IF o.kind # "response" THEN "unexpected"
    ELSE IF o.status = 200 THEN (IF o.lz4 THEN "ok" ELSE "corrupt")
    ELSE IF o.status = 404 THEN "not_found"
    ELSE IF o.status = 429 THEN "rate_limited"
    ELSE IF o.status >= 500 THEN "server_error"
    ELSE "api_error"

\* The arms that sleep and continue.
Continues(b) ==
    b \in {"rate_limited", "server_error", "timeout", "connection_error"}

\* random.random(), in thousandths: a value of [0, 1).
Randoms == {0, 500, 999}

Min(a, b) == IF a <= b THEN a ELSE b

\* _calculate_backoff: exponential backoff, capped, with +-25% jitter.
calculate_backoff(n, rnd) ==
    LET capped == Min(INITIAL_BACKOFF * (2 ^ n), MAX_BACKOFF)
        jitter == (capped * ((2 * rnd) - 1000)) \div 4000
    IN  capped + jitter

InitDownload ==
    /\ pc = "off"
    /\ nrows = 0
    /\ row = NoRow
    /\ position = 0
    /\ entry_price = <<0, 1>>
    /\ entry_time = -1
    /\ cash = Amt(initial_cash, 1)
    /\ holdings = Zero
    /\ size = Unbound
    /\ trades = <<>>
    /\ equity_curve = <<>>
    /\ exact = TRUE
    /\ df = <<>>
    /\ run = 1
    /\ first = NoResult
    /\ book = <<>>
    /\ called = FALSE
    /\ inference = FALSE
    /\ features = <<>>
    /\ polars = [std1 |-> ZeroVol, stable |-> TRUE]
    /\ latest_book = None
    /\ lock = "free"
    /\ running = FALSE
    /\ ws = "none"
    /\ wpc = "idle"
    /\ content = None
    /\ arrived = <<>>
    /\ accepted = <<>>
    /\ lpc = "off"
    /\ ticks = 0
    /\ polled_book = None
    /\ features_df = None
    /\ signals = <<>>
    /\ exc = "none"
    /\ model = <<>>
    /\ models_dir = [model |-> TRUE, scaler |-> TRUE]
    /\ loads = 0
    /\ raised = "none"
    /\ dpc = "get"
    /\ attempt = 0
    /\ gets = 0
    /\ outcome = None
    /\ backoff = 0
    /\ result = "none"

\* One iteration of `for attempt in range(self.MAX_RETRIES)` up to its
\* return, raise or time.sleep: session.get ends in outcome o.
Get(o) ==
    /\ dpc = "get"
    /\ attempt < MAX_RETRIES
    /\ gets' = gets + 1
    /\ outcome' = o
    /\ LET arm == Branch(o)
       IN  IF Continues(arm)
           THEN /\ \E rnd \in Randoms :
                       backoff' = calculate_backoff(attempt, rnd)
                /\ dpc' = "sleep"
                /\ UNCHANGED result
           ELSE /\ dpc' = IF arm \in {"ok", "not_found"}
                          THEN "returned" ELSE "raised"
                /\ result' = CASE arm = "ok" -> "decompressed"
                               [] arm = "not_found" -> "None"
                               [] arm = "corrupt" -> "Decompression error"
                               [] arm = "api_error" -> "API error"
                               [] OTHER -> "Unexpected error"
                /\ UNCHANGED backoff
    /\ UNCHANGED attempt
    /\ UNCHANGED <<load_vars, sim_vars, runs_vars, feature_vars, live_vars>>

\* time.sleep(backoff); continue: the next value of range(MAX_RETRIES), or,
\* when the range is exhausted, the raise of lines 155-159.
Backoff ==
    /\ dpc = "sleep"
    /\ attempt' = attempt + 1
    /\ IF attempt + 1 < MAX_RETRIES
       THEN dpc' = "get" /\ UNCHANGED result
       ELSE dpc' = "raised" /\ result' = "Max retries exceeded"
    /\ UNCHANGED <<gets, outcome, backoff>>
    /\ UNCHANGED <<load_vars, sim_vars, runs_vars, feature_vars, live_vars>>

NextDownload ==
    \/ \E o \in Outcomes : Get(o)
    \/ Backoff

SpecDownload == InitDownload /\ [][NextDownload]_vars

\* session.get returns or raises within its timeout and time.sleep returns,
\* so a call that can take a step takes it.
SpecDownloadFair == SpecDownload /\ WF_vars(NextDownload)

\* ======================================================================
\* Properties of run_backtest
\* ======================================================================
Last(s) == s[Len(s)]

\* This step was an iteration of the row loop (on the row row').
RowStep == nrows' = nrows + 1
\* This step appended one trade to the ledger, of the given side.
Appended(side) ==
    /\ Len(trades') = Len(trades) + 1
    /\ SubSeq(trades', 1, Len(trades)) = trades
    /\ Last(trades').side = side

\* The exit rules as the strategy states them, for the open position
\* (entry_price, entry_time) and the row r; prices are n/d with d > 0 and
\* the entry price is positive, so the quotients are cleared by
\* multiplication.
PriceMove(r) == r.bid_px[1] * entry_price[2] - entry_price[1] * r.bid_px[2]
EntryScale(r) == entry_price[1] * r.bid_px[2]
TakeProfitHolds(r) == 100 * PriceMove(r) >= EntryScale(r)
StopLossHolds(r) == 1000 * PriceMove(r) <= (0 - 5) * EntryScale(r)
MaxHoldHolds(r) == r.timestamp - entry_time >= 5 * 60 * 1000
ReversalHolds(r) == 10 * r.prob[1] < 4 * r.prob[2]
AnyExitRule(r) ==
    TakeProfitHolds(r) \/ StopLossHolds(r) \/ MaxHoldHolds(r) \/ ReversalHolds(r)

\* An amount read as a signed number is not negative: a difference that
\* went below zero wraps around into the top limb.
NonNegative(a) == a[NLimbs] = 0

\* C1: every iteration of the row loop appends exactly one equity point,
\* carrying the timestamp of the row iterated, after the points of the rows
\* before it; no other step touches the curve; so the curve always has one
\* point per processed row, in row order.
C1_OnePointPerRow ==
    /\ [](Len(equity_curve) = nrows)
    /\ [][/\ RowStep =>
               /\ Len(equity_curve') = Len(equity_curve) + 1
               /\ SubSeq(equity_curve', 1, Len(equity_curve)) = equity_curve
               /\ Last(equity_curve').time = row'.timestamp
          /\ ~RowStep => equity_curve' = equity_curve]_vars
C1_Witness ==
    /\ pc = "done"
    /\ nrows = 3
    /\ Len(equity_curve) = 3
    /\ Len(trades) = 2

\* C2: when the run has finished on a non-empty row sequence the position
\* is FLAT: status FLAT and holdings zero.
C2_FinalFlat ==
    (pc = "done" /\ nrows > 0) => (position = 0 /\ holdings = Zero)

\* C3: the reason recorded by a rule-triggered exit is that of the first
\* rule that holds, in the order TP, SL, Time, Signal.
C3_ExitPriority ==
    [][(RowStep /\ Appended("SELL")) =>
          LET r == row'
              why == Last(trades').reason
          IN  /\ why \in {"TP", "SL", "Time", "Signal"}
              /\ TakeProfitHolds(r) => why = "TP"
              /\ (~TakeProfitHolds(r) /\ StopLossHolds(r)) => why = "SL"
              /\ (~TakeProfitHolds(r) /\ ~StopLossHolds(r) /\ MaxHoldHolds(r))
                     => why = "Time"
              /\ (~TakeProfitHolds(r) /\ ~StopLossHolds(r) /\ ~MaxHoldHolds(r))
                     => (why = "Signal" /\ ReversalHolds(r))]_vars
\* A take-profit exit on a row on which the holding-time and the
\* signal-reversal rules hold too.
C3_Witness ==
    /\ pc = "loop"
    /\ position = 0
    /\ trades # <<>>
    /\ Last(trades).side = "SELL"
    /\ Last(trades).time = row.timestamp
    /\ Last(trades).reason = "TP"
    /\ MaxHoldHolds(row)
    /\ ReversalHolds(row)

\* C4: a row appends a BUY if and only if the position is FLAT when the row
\* is processed and the row's probability is strictly above 0.6; no other
\* step appends a BUY.
C4_BuyIffFlatAndSignal ==
    [][/\ RowStep =>
            (Appended("BUY") <=>
                (position = 0 /\ 10 * row'.prob[1] > 6 * row'.prob[2]))
       /\ ~RowStep => ~Appended("BUY")]_vars
\* A BUY filled on the current row, the second of the run.
C4_Witness ==
    /\ nrows = 2
    /\ position = 1
    /\ Len(trades) = 1
    /\ trades[1].side = "BUY"
    /\ trades[1].time = row.timestamp
    /\ 10 * row.prob[1] > 6 * row.prob[2]

\* C5: the ledger alternates BUY, SELL, BUY, SELL, ... from a BUY; a BUY is
\* appended only while FLAT and a SELL only while LONG; holdings are never
\* negative.
C5_NoDoublingNoShort ==
    /\ [](/\ \A i \in 1..Len(trades) :
                trades[i].side = IF i % 2 = 1 THEN "BUY" ELSE "SELL"
          /\ NonNegative(holdings))
    /\ [][/\ Appended("BUY") => position = 0
          /\ Appended("SELL") => position = 1
          /\ trades' # trades => (Appended("BUY") \/ Appended("SELL"))]_vars
\* Two complete round trips.
C5_Witness ==
    /\ Len(trades) = 4
    /\ trades[3].side = "BUY"
    /\ trades[4].side = "SELL"
    /\ position = 0

\* C6: while LONG a row exits if and only if one of the four rules holds for
\* it (the first three inclusive, the last strict); otherwise the row leaves
\* cash, holdings, entry price, entry time and the ledger unchanged.
C6_ExitIffRule ==
    [][(RowStep /\ position = 1) =>
          /\ Appended("SELL") <=> AnyExitRule(row')
          /\ ~AnyExitRule(row') =>
                 UNCHANGED <<cash, holdings, entry_price, entry_time, trades,
                             position>>]_vars
\* A stop-loss exit on a row whose bid is exactly 0.5% below the entry price.
C6_Witness ==
    /\ pc = "loop"
    /\ position = 0
    /\ trades # <<>>
    /\ Last(trades).side = "SELL"
    /\ Last(trades).time = row.timestamp
    /\ Last(trades).reason = "SL"
    /\ 1000 * PriceMove(row) = (0 - 5) * EntryScale(row)

\* The BUY fill as the strategy states it, for the step that appended the
\* BUY t on the row r: size * ask = cash * 0.99, fee = size * ask * 0.00025,
\* cash decreases by notional + fee, the position is LONG from the ask at
\* the row's timestamp.
EnterLongFill(t, r) ==
    LET notional == MulRat(t.size, r.ask_px)
    IN  /\ t.price = r.ask_px
        /\ t.time = r.timestamp
        /\ notional = MulRat(cash, <<99, 100>>)
        /\ MulSmall(t.fee, 100000) = MulSmall(notional, 25)
        /\ Add(cash', Add(notional, t.fee)) = cash
        /\ holdings' = t.size
        /\ position' = 1
        /\ entry_price' = r.ask_px
        /\ entry_time' = r.timestamp
\* The step buys at ask 100 with cash 10000.
ExampleBuy(r) == cash = Amt(10000, 1) /\ r.ask_px[1] = 100 * r.ask_px[2]

\* C7 as stated: the fill rule, with the example size 98.01, fee 2.45025,
\* cash after 196.54975.
C7_AsStated ==
    [][Appended("BUY") =>
          /\ EnterLongFill(Last(trades'), row')
          /\ ExampleBuy(row') =>
                 /\ Last(trades').size = Amt(9801, 100)
                 /\ Last(trades').fee = Add(Amt(2, 1), Amt(45025, 100000))
                 /\ cash' = Add(Amt(196, 1), Amt(54975, 100000))]_vars
\* C7 amended: the fill rule, with the example size 99, fee 2.475, cash
\* after 97.525.
C7_EnterLongFill ==
    [][Appended("BUY") =>
          /\ EnterLongFill(Last(trades'), row')
          /\ ExampleBuy(row') =>
                 /\ Last(trades').size = Amt(99, 1)
                 /\ Last(trades').fee = Amt(2475, 1000)
                 /\ cash' = Amt(97525, 1000)]_vars
\* The first BUY of a run, filled at ask 100.
C7_Witness ==
    /\ Len(trades) = 1
    /\ trades[1].side = "BUY"
    /\ trades[1].price = <<100, 1>>
    /\ holdings = Amt(99, 1)
    /\ cash = Amt(97525, 1000)
    /\ position = 1

\* C8: a rule-triggered exit sells the entire holdings at the row's bid:
\* notional = holdings * bid, fee = notional * 0.00025, cash increases by
\* notional - fee, holdings become zero and the position FLAT.
C8_ExitFill ==
    [][(RowStep /\ Appended("SELL")) =>
          LET t == Last(trades')
              notional == MulRat(holdings, row'.bid_px)
          IN  /\ t.price = row'.bid_px
              /\ t.time = row'.timestamp
              /\ MulSmall(t.fee, 100000) = MulSmall(notional, 25)
              /\ Add(cash', t.fee) = Add(cash, notional)
              /\ holdings' = Zero
              /\ position' = 0]_vars
\* The state right after an exit.
C8_Witness ==
    /\ pc = "loop"
    /\ trades # <<>>
    /\ Last(trades).side = "SELL"
    /\ Last(trades).time = row.timestamp
    /\ holdings = Zero
    /\ position = 0
    /\ Less(Amt(9000, 1), cash)

\* The realized PnL of the round trip that the BUY b opened and the SELL s
\* closed: (sell_notional - sell_fee) - (buy_notional + buy_fee).
RoundTripPnl(b, s) ==
    SignedSub(Sub(MulRat(b.size, s.price), s.fee),
              Add(MulRat(b.size, b.price), b.fee))

\* C9: every SELL of the ledger records a realized_pnl, equal to the PnL of
\* its round trip computed from the BUY that opened the position.
C9_PnlOnEverySell ==
    \A i \in 2..Len(trades) :
        trades[i].side = "SELL" =>
            /\ "pnl" \in DOMAIN trades[i]
            /\ trades[i].pnl = RoundTripPnl(trades[i - 1], trades[i])
\* What the code does keep of C9: every rule-triggered SELL records the PnL
\* of its own round trip.
PnlOfRuleExits ==
    \A i \in 2..Len(trades) :
        (trades[i].side = "SELL" /\ trades[i].reason # "End") =>
            /\ "pnl" \in DOMAIN trades[i]
            /\ trades[i].pnl = RoundTripPnl(trades[i - 1], trades[i])
\* A second round trip closed by a rule, with a size other than the first's.
PnlOfRuleExitsWitness ==
    /\ Len(trades) = 4
    /\ trades[4].reason # "End"
    /\ trades[3].size # trades[1].size

\* C10: every SELL record carries the size held immediately before the
\* exit, the size of the BUY that opened the position, never 0.
C10_SellCarriesSize ==
    \A i \in 2..Len(trades) :
        trades[i].side = "SELL" =>
            /\ "size" \in DOMAIN trades[i]
            /\ trades[i].size = trades[i - 1].size
            /\ trades[i].size # Zero

\* C11: when the position is still LONG after the last row, Final Close
\* appends exactly one SELL, at the last row's bid and timestamp, with the
\* end-of-data reason, accounted like a rule-triggered exit: fee = notional *
\* 0.00025, cash increases by notional - fee, and the record carries size,
\* fee and pnl.
C11_EndLikeRuleExit ==
    [][(pc = "final" /\ pc' = "done" /\ position = 1) =>
          LET notional == MulRat(holdings, row.bid_px)
              end_fee == MulRat(notional, <<25, 100000>>)
          IN  /\ Appended("SELL")
              /\ Last(trades').price = row.bid_px
              /\ Last(trades').time = row.timestamp
              /\ Last(trades').reason = "End"
              /\ Add(cash', end_fee) = Add(cash, notional)
              /\ {"size", "fee", "pnl"} \subseteq DOMAIN Last(trades')]_vars
\* What the code does keep of C11: one SELL at the last row's bid and
\* timestamp, reason End, cash credited with notional - fee.
EndSellFill ==
    [][(pc = "final" /\ pc' = "done" /\ position = 1) =>
          LET notional == MulRat(holdings, row.bid_px)
              end_fee == MulRat(notional, <<25, 100000>>)
          IN  /\ Appended("SELL")
              /\ Last(trades').price = row.bid_px
              /\ Last(trades').time = row.timestamp
              /\ Last(trades').reason = "End"
              /\ Add(cash', end_fee) = Add(cash, notional)]_vars
EndSellFillWitness ==
    /\ pc = "done"
    /\ trades # <<>>
    /\ Last(trades).reason = "End"

\* C12: the equity point a row appends is cash + holdings * the row's bid,
\* over the cash and holdings the row finds; while FLAT the position
\* contributes nothing and the point is the cash alone.
C12_MarkToMarket ==
    [][RowStep =>
          /\ position = 1 =>
                 Last(equity_curve').equity =
                     Add(cash, MulRat(holdings, row'.bid_px))
          /\ position = 0 =>
                 (holdings = Zero /\ Last(equity_curve').equity = cash)]_vars
\* A point recorded while LONG, on a row after the one that bought: it is
\* worth more than the cash.
C12_Witness ==
    /\ pc = "loop"
    /\ nrows = 2
    /\ Len(trades) = 1
    /\ position = 1
    /\ Last(equity_curve).time = row.timestamp
    /\ Last(equity_curve).equity = Add(cash, MulRat(holdings, row.bid_px))
    /\ Less(cash, Last(equity_curve).equity)

\* The trades of a ledger that the loop made on rows up to the time upto:
\* all but the end-of-data SELL.
LoopTrades(ledger, upto) ==
    SelectSeq(ledger,
              LAMBDA t : t.time <= upto /\ ~(t.side = "SELL" /\ t.reason = "End"))

C14_NoLookahead ==
    run = 2 =>
        /\ equity_curve = SubSeq(first.equity_curve, 1, nrows)
        /\ LoopTrades(trades, row.timestamp)
               = LoopTrades(first.trades, row.timestamp)
\* The second call has iterated a proper prefix of the frame, has bought on
\* it, and the first call went on to trade on the later rows.
C14_Witness ==
    /\ run = 2
    /\ pc = "final"
    /\ Len(df) < Len(first.df)
    /\ nrows = Len(df)
    /\ Len(trades) = 1
    /\ Len(LoopTrades(first.trades, first.df[Len(first.df)].timestamp)) >= 2

\* C15: cash is never negative; every BUY debits no more than the cash
\* available (notional + fee <= cash) and leaves a positive rest.
C15_CashNeverNegative ==
    /\ [](NonNegative(cash) /\ (position = 1 => Less(Zero, cash)))
    /\ [][Appended("BUY") =>
             ~Less(cash, Add(MulRat(Last(trades').size, Last(trades').price),
                             Last(trades').fee))]_vars
\* The second BUY of a run, sized against what the first round trip left.
C15_Witness ==
    /\ Len(trades) = 3
    /\ trades[3].side = "BUY"
    /\ position = 1
    /\ Less(Zero, cash)
    /\ Less(cash, Amt(100, 1))

C17_AppendOnly ==
    /\ [][/\ Len(trades') >= Len(trades)
          /\ SubSeq(trades', 1, Len(trades)) = trades
          /\ Len(equity_curve') >= Len(equity_curve)
          /\ SubSeq(equity_curve', 1, Len(equity_curve)) = equity_curve]_vars
    /\ [](\A i \in 1..(Len(trades) - 1) : trades[i].time <= trades[i + 1].time)
\* A finished run with a round trip over several rows and then a BUY on the
\* last row, closed by the end-of-data SELL at the same timestamp.
C17_Witness ==
    /\ pc = "done"
    /\ Len(trades) = 4
    /\ trades[1].time < trades[2].time
    /\ trades[3].time = trades[4].time
    /\ Len(equity_curve) >= 3

\* ======================================================================
\* Properties of compute_features
\* ======================================================================
\* The feature columns other than the label.
FeatureCols ==
    {"bid_px", "ask_px", "bid_sz", "ask_sz", "mid_price", "spread",
     "imbalance_1", "wmp", "volatility_5m"}
\* The position in book of the snapshot a feature row was derived from.
PositionOf(r) == CHOOSE t \in 1..Len(book) : book[t].timestamp = r.timestamp
\* A volatility cell is the number zero.
IsZeroVol(cell) == cell # Null /\ cell[1] = ZeroVar /\ cell[2] > 0

\* C18: every non-label feature of an emitted row is a function of the
\* snapshots up to its own position t: it is the value the derivation gives
\* on the first t snapshots alone, whatever follows them.
C18_FeaturesNoLookahead ==
    called =>
        \A i \in 1..Len(features) :
            \E t \in {PositionOf(features[i])} :
                \E past \in {RowFeatures(SubSeq(book, 1, t), inference, polars)} :
                    \A f \in FeatureCols : features[i][f] = past[t][f]
\* TRAIN-mode rows derived from a book that changes only after them: the
\* label of the second row sees the change, its features do not.
C18_Witness ==
    /\ called
    /\ ~inference
    /\ Len(book) = 12
    /\ Len(features) = 2
    /\ book[12].levels # book[7].levels
    /\ features[2].target = <<1, 1>>
    /\ IsZeroVol(features[2].volatility_5m)

\* C19: in TRAIN mode over N snapshots the snapshot at 0-based index t has
\* a row in the output if and only if 5 <= t <= N - 6; the output has
\* max(0, N - 10) rows.
C19_TrainRows ==
    (called /\ ~inference) =>
        /\ Len(features) = IF Len(book) > 10 THEN Len(book) - 10 ELSE 0
        /\ \A k \in 1..Len(book) :
               (\E i \in 1..Len(features) :
                    features[i].timestamp = book[k].timestamp)
                   <=> (k - 1 >= 5 /\ k - 1 <= Len(book) - 6)
\* Twelve snapshots give the rows of the sixth and the seventh.
C19_Witness ==
    /\ called
    /\ ~inference
    /\ Len(book) = 12
    /\ Len(features) = 2
    /\ features[1].timestamp = book[6].timestamp
    /\ features[2].timestamp = book[7].timestamp

PartialWindowWitness ==
    /\ called
    /\ inference
    /\ Len(book) = 3
    /\ ~IsZeroVol(features[3].volatility_5m)
    /\ features[3].volatility_5m[2] = 2

\* ======================================================================
\* Properties of compute_features on irregular snapshots (SpecShort)

\* A feature row carries the timestamp, prices and sizes of a snapshot.
FromSnapshot(r, b) ==
    /\ r.timestamp = b.timestamp
    /\ r.bid_px = CastFloat64(b.levels[1][1].px)
    /\ r.bid_sz = CastFloat64(b.levels[1][1].sz)
    /\ r.ask_px = CastFloat64(b.levels[2][1].px)
    /\ r.ask_sz = CastFloat64(b.levels[2][1].sz)
\* The number of snapshots a row is dropped before the first emitted one.
Dropped == IF inference THEN 0 ELSE 5

NoDedupInTimeOrder ==
    (called /\ inference) =>
        /\ Len(features) = Len(book)
        /\ \A k \in 1..Len(book) :
               Cardinality({ i \in 1..Len(features) :
                                 FromSnapshot(features[i], book[k]) })
                   = Cardinality({ j \in 1..Len(book) :
                                       /\ book[j].timestamp = book[k].timestamp
                                       /\ book[j].levels = book[k].levels })
        /\ \A i \in 2..Len(features) :
               features[i - 1].timestamp <= features[i].timestamp
\* Two snapshots of one timestamp and different content, both emitted.
NoDedupWitness ==
    /\ called
    /\ inference
    /\ Len(book) = 2
    /\ book[1].timestamp = book[2].timestamp
    /\ book[1].levels # book[2].levels
    /\ Len(features) = 2

\* ======================================================================
\* Properties of the label and of the two modes (SpecFeatures)

\* Twice the mid price of a snapshot, from its level strings.
TwiceMid(b) ==
    ParseDigits(b.levels[1][1].px, Len(b.levels[1][1].px))
        + ParseDigits(b.levels[2][1].px, Len(b.levels[2][1].px))
\* mid_price[t + 5] / mid_price[t] - 1 > 0.001, on the snapshots.
MovesAboveThreshold(t) ==
    1000 * (TwiceMid(book[t + 5]) - TwiceMid(book[t])) > TwiceMid(book[t])
\* mid_price[t + 5] / mid_price[t] - 1 = 0.001
MovesByThreshold(t) ==
    1000 * (TwiceMid(book[t + 5]) - TwiceMid(book[t])) = TwiceMid(book[t])

\* C22: in TRAIN mode the label of the row of snapshot t is 1 if the mid
\* price 5 snapshots later is more than 0.1% above that of t and 0
\* otherwise, a move of exactly 0.1% included; INFER-mode rows have no
\* label column.
C22_Label ==
    called =>
        \A i \in 1..Len(features) :
            IF inference
            THEN "target" \notin DOMAIN features[i]
            ELSE /\ "target" \in DOMAIN features[i]
                 /\ features[i].target =
                        IF MovesAboveThreshold(PositionOf(features[i]))
                        THEN <<1, 1>> ELSE <<0, 1>>
\* TRAIN-mode rows of both labels: the first sees no move in 5 snapshots,
\* the second a move above 0.1%.
C22_Witness ==
    /\ called
    /\ ~inference
    /\ Len(features) = 2
    /\ features[1].target = <<0, 1>>
    /\ features[2].target = <<1, 1>>
    /\ MovesAboveThreshold(PositionOf(features[2]))
\* A row whose mid price moves by exactly 0.1% in 5 snapshots has label 0.
ExactThresholdWitness ==
    /\ called
    /\ ~inference
    /\ Len(features) = 2
    /\ MovesByThreshold(PositionOf(features[2]))
    /\ features[2].target = <<0, 1>>
\* INFER-mode rows exist and carry no label.
NoLabelWitness ==
    /\ called
    /\ inference
    /\ Len(features) = 12
    /\ "target" \notin DOMAIN features[12]

\* The instantaneous feature columns.
InstantCols ==
    {"bid_px", "ask_px", "bid_sz", "ask_sz", "mid_price", "spread",
     "imbalance_1", "wmp"}

\* C23: a snapshot's instantaneous features are the same in INFER mode and
\* in TRAIN mode, and so is the volatility of a row with 5 returns behind
\* it (0-based index >= 5); hence a row emitted in both modes has the same
\* value in every feature column.
C23_ModesAgree ==
    called =>
        \E infer \in {RowFeatures(book, TRUE, polars)} :
            \E train \in {RowFeatures(book, FALSE, polars)} :
                \E other \in {compute_features(book, ~inference, polars)} :
                    /\ \A k \in 1..Len(book) :
                           /\ \A f \in InstantCols :
                                  infer[k][f] = train[k][f]
                           /\ k - 1 >= 5 =>
                                  infer[k].volatility_5m
                                      = train[k].volatility_5m
                    /\ \A i \in 1..Len(features), j \in 1..Len(other) :
                           features[i].timestamp = other[j].timestamp =>
                               \A f \in FeatureCols :
                                   features[i][f] = other[j][f]
\* TRAIN-mode rows, the first with a volatility other than 0, which the
\* INFER-mode call on the same snapshots emits as well.
C23_Witness ==
    /\ called
    /\ ~inference
    /\ Len(features) = 2
    /\ ~IsZeroVol(features[1].volatility_5m)
    /\ Len(compute_features(book, TRUE, polars)) = 12

\* ======================================================================
\* Properties of compute_features on a snapshot without size (SpecShort)

\* The Float64 NaN of 0.0 / 0.0.
IsNaN(cell) == cell[1] = 0 /\ cell[2] = 0
\* The best sizes of a row are both 0.
NoSize(r) == r.bid_sz[1] = 0 /\ r.ask_sz[1] = 0
\* A cell holds (bid_sz - ask_sz) / (bid_sz + ask_sz) of its row.
IsImbalanceOf(cell, r) ==
    /\ cell[2] # 0
    /\ cell[1] * (r.bid_sz[1] + r.ask_sz[1])
           = (r.bid_sz[1] - r.ask_sz[1]) * cell[2]

\* C24: compute_features returns on a book with snapshots whose best sizes
\* are both zero; every snapshot gets its feature values (and, in INFER
\* mode, its row), the imbalance of a snapshot without size is NaN and that
\* of every other snapshot is its finite value.
C24_ZeroSizes ==
    called =>
        /\ \E rows \in {RowFeatures(book, inference, polars)} :
               /\ Len(rows) = Len(book)
               /\ \A k \in 1..Len(rows) :
                      IF NoSize(rows[k]) THEN IsNaN(rows[k].imbalance_1)
                      ELSE IsImbalanceOf(rows[k].imbalance_1, rows[k])
        /\ inference =>
               /\ Len(features) = Len(book)
               /\ Cardinality({ i \in 1..Len(features) : NoSize(features[i]) })
                      = Cardinality({ k \in 1..Len(book) :
                                          book[k].levels = ZeroSizeLevels })
               /\ \A i \in 1..Len(features) :
                      IF NoSize(features[i])
                      THEN IsNaN(features[i].imbalance_1)
                      ELSE IsImbalanceOf(features[i].imbalance_1, features[i])
\* A snapshot without size between two with size: its row has the NaN
\* imbalance, the rows before and after it have theirs.
C24_Witness ==
    /\ called
    /\ inference
    /\ Len(book) = 3
    /\ book[1].timestamp < book[2].timestamp
    /\ book[2].timestamp < book[3].timestamp
    /\ book[2].levels = ZeroSizeLevels
    /\ Len(features) = 3
    /\ IsNaN(features[2].imbalance_1)
    /\ IsImbalanceOf(features[1].imbalance_1, features[1])
    /\ IsImbalanceOf(features[3].imbalance_1, features[3])

\* ======================================================================
\* Properties of the live connector and engine (SpecLive)

\* A stored book whose levels lack a side.
Malformed(b) == b # None /\ (b.levels = None \/ Len(b.levels) < 2)
\* This step logged a Price / Prob / Signal line.
Emitted == Len(signals') = Len(signals) + 1

\* C25: a polled snapshot with a side missing is skipped: the iteration
\* that polled it logs no signal, raises nothing and goes on to sleep and
\* to the next poll.
C25_MalformedSkipped ==
    [][(/\ lpc = "infer"
        /\ Malformed(polled_book)
        /\ lpc' # lpc
        /\ exc' # "KeyboardInterrupt")
           => (lpc' = "sleep" /\ signals' = signals /\ exc' = "none")]_vars
\* What the code does keep of C25: process_snapshot itself returns None for
\* such a snapshot, and no signal is ever logged for one.
MalformedGivesNone ==
    /\ (lpc = "infer" /\ Malformed(polled_book)) => features_df = None
    /\ \A i \in 1..Len(signals) :
           \A j \in 1..Len(accepted) :
               accepted[j].time = signals[i].time => ~Malformed(accepted[j])
\* The loop has been left with the AttributeError of a malformed snapshot,
\* after a signal for an earlier one.
MalformedRaisesWitness ==
    /\ lpc = "raised"
    /\ exc = "AttributeError"
    /\ Malformed(polled_book)
    /\ Len(signals) = 1

\* The PositionState a decision policy would track over the first k logged
\* signals: FLAT at first, LONG after a BUY, FLAT after a SELL.
RECURSIVE Tracked(_)
Tracked(k) ==
    IF k = 0 THEN "FLAT"
    ELSE IF signals[k].signal = "BUY" THEN "LONG"
    ELSE IF signals[k].signal = "SELL" THEN "FLAT"
    ELSE Tracked(k - 1)

\* C26: BUY is logged only while the tracked position is FLAT and SELL only
\* while it is LONG, so two BUYs never follow each other without a SELL
\* between them and no SELL is logged while FLAT.
C26_SignalsFollowPosition ==
    \A k \in 1..Len(signals) :
        /\ signals[k].signal = "BUY" => Tracked(k - 1) = "FLAT"
        /\ signals[k].signal = "SELL" => Tracked(k - 1) = "LONG"
\* What the code does instead: the signal is a function of the predicted
\* probability alone.
SignalFromProbAlone ==
    \A k \in 1..Len(signals) :
        signals[k].signal =
            IF RatLt(<<6, 10>>, signals[k].prob) THEN "BUY"
            ELSE IF RatLt(signals[k].prob, <<4, 10>>) THEN "SELL"
            ELSE "HOLD"
\* Two BUY lines in a row.
TwoBuysWitness ==
    /\ Len(signals) = 2
    /\ signals[1].signal = "BUY"
    /\ signals[2].signal = "BUY"
\* A SELL line as the first signal.
SellWhileFlatWitness ==
    /\ Len(signals) = 1
    /\ signals[1].signal = "SELL"

\* C28: no signal computed from a snapshot is logged after a newer snapshot
\* has been stored: when a line is logged, the book it was computed from is
\* still the stored one.
C28_MostRecentWins ==
    [][Emitted => latest_book.time <= signals'[Len(signals')].time]_vars
\* What the code does keep of C28: a signal is computed from the snapshot
\* the iteration polled, and the polled snapshots never go back in time.
SignalsInPollOrder ==
    /\ \A k \in 2..Len(signals) : signals[k - 1].time <= signals[k].time
    /\ \A k \in 1..Len(signals) :
           \E j \in 1..Len(accepted) : accepted[j].time = signals[k].time

\* A parsed message of channel l2Book for the connector's coin.
IsOwnBook(m) ==
    /\ "channel" \in DOMAIN m
    /\ m.channel = "l2Book"
    /\ m.data.coin = "SOL"
\* The contents on_message stores for the first k messages of arr, in
\* order: those of channel l2Book and of the connector's coin.
RECURSIVE ContentsFrom(_, _)
ContentsFrom(arr, k) ==
    IF k = 0 THEN <<>>
    ELSE IF IsOwnBook(arr[k])
    THEN Append(ContentsFrom(arr, k - 1),
                [time |-> 1000 * k] @@ arr[k].data)
    ELSE ContentsFrom(arr, k - 1)
\* The complete content of the message accepted last, None before any.
LastAccepted ==
    IF accepted = <<>> THEN None
    ELSE ContentsFrom(arrived, Len(arrived))[Len(accepted)]
\* This step is the return of get_latest_book.
ReadStep == lpc = "read" /\ lpc' \in {"process", "sleep"}

\* C29: in every interleaving a read returns None when nothing has been
\* accepted and otherwise the complete content of the message accepted
\* last, whatever number of messages was accepted since the read before;
\* the stored value is one such content at all times.
C29_AtomicRegister ==
    /\ [](latest_book = LastAccepted)
    /\ [][ReadStep => polled_book' = LastAccepted]_vars
\* Two messages were accepted between the first poll and the second, and
\* the second poll returned the later one.
C29_Witness ==
    /\ ticks = 2
    /\ lpc = "process"
    /\ Len(signals) = 1
    /\ signals[1].time = 1000
    /\ Len(accepted) = 3
    /\ polled_book = LastAccepted
    /\ polled_book.time = 3000
    /\ polled_book.levels # accepted[2].levels
\* A read before any message was accepted returned None.
ReadNoneWitness ==
    /\ ticks = 1
    /\ lpc = "sleep"
    /\ polled_book = None
    /\ accepted = <<>>

\* C30: whenever run has left its polling loop, by KeyboardInterrupt or by
\* another exception, the connector has been stopped and its websocket
\* closed; every stop closes the websocket; and a stop by another thread
\* changes nothing in the engine's thread: its position, its polled book,
\* its features and its log are as before.
C30_StopOnEveryExit ==
    /\ [](lpc \in {"returned", "raised"} => (ws = "closed" /\ ~running))
    /\ [][(running /\ ~running') => ws' = "closed"]_vars
    /\ [][(running /\ ~running' /\ lpc \in InLoop) =>
              UNCHANGED <<lpc, polled_book, features_df, signals, exc>>]_vars
\* run has left its loop with an exception other than KeyboardInterrupt and
\* the websocket is closed.
C30_Witness ==
    /\ lpc = "raised"
    /\ exc = "AttributeError"
    /\ ws = "closed"
    /\ ~running
\* run has returned after a KeyboardInterrupt and the websocket is closed.
InterruptedWitness ==
    /\ lpc = "returned"
    /\ exc = "KeyboardInterrupt"
    /\ ws = "closed"
\* The connector was stopped while an inference was in progress, and the
\* inference went on to log its signal.
StoppedDuringInference ==
    /\ ws = "closed"
    /\ lpc = "infer"
    /\ features_df # None

\* ======================================================================
\* Properties of process_snapshot on a stream (SpecProcess)

\* volatility_5m of the last row of an INFER-mode frame.
TrailingVolatility(buffer) ==
    CHOOSE v \in
        { FillNullVol(RollingStd(x, Len(x), 1, polars.std1)) :
          x \in { Returns(SortByTimestamp(PriceFeatures(ExtractBest(buffer)),
                                          polars.stable)) } } : TRUE
\* The last n snapshots received.
Trailing(n) == SubSeq(book, Len(book) - n + 1, Len(book))

\* C27: once 5 or more snapshots have been received, the features of the
\* snapshot processed are derived from a trailing buffer of at least 5
\* snapshots: for some capacity n >= 5 the frame derived from has the last
\* min(n, received) snapshots as its rows and the tick's volatility is that
\* of the returns in them.
C27_TrailingBuffer ==
    (/\ book # <<>>
     /\ polled_book = LatestReceived
     /\ Len(book) >= 5) =>
        \E n \in 5..Len(book) :
            features_df[1].volatility_5m = TrailingVolatility(Trailing(n))
\* What the code does instead: the frame process_snapshot derives from has
\* the current snapshot as its only row, so the volatility is the 0 that
\* fill_null puts in place of the missing value.
CurrentSnapshotAlone ==
    (book # <<>> /\ polled_book = LatestReceived) =>
        /\ Len(features_df) = 1
        /\ IsZeroVol(features_df[1].volatility_5m)
        /\ features_df =
               compute_features(<<book[Len(book)]>>, TRUE, polars)
\* Five snapshots with a change of price among them have been received and
\* the last has been processed.
FlatVolatilityWitness ==
    /\ Len(book) = 5
    /\ polled_book = LatestReceived
    /\ IsZeroVol(features_df[1].volatility_5m)
    /\ ~IsZeroVol(TrailingVolatility(book))

\* ======================================================================
\* Further properties of the live connector and engine (SpecLive)

\* The engine's thread is computing features or predicting.
Inferring == lpc \in {"process", "infer"}

\* C31: the engine's thread holds the connector lock only between the
\* acquisition in get_latest_book and its return; feature computation,
\* scaling and prediction run without it, so an on_message waiting for the
\* lock while an inference runs finds it free and stores its snapshot.
C31_ReceiveNeverBlocked ==
    /\ [](lock = "engine" <=> lpc = "read")
    /\ []((Inferring /\ wpc = "lock") => lock = "free")
    /\ [][(Inferring /\ wpc = "store" /\ wpc' = "idle") =>
              (latest_book' = content /\ Inferring')]_vars
\* on_message holds the lock and is about to store a snapshot while the
\* engine predicts on the one polled before.
C31_Witness ==
    /\ lpc = "infer"
    /\ wpc = "store"
    /\ lock = "ws"
    /\ polled_book # None
    /\ content.time > polled_book.time

\* ======================================================================
\* Properties of the loading of the model artifacts (SpecLoad)

\* A kind of artifact has no file in models_dir.
ArtifactAbsent == ~models_dir.model \/ ~models_dir.scaler

\* C32: with the model or the scaler file absent the one call of
\* load_latest_model / load_model raises FileNotFoundError and is not
\* repeated; run_backtest then has no equity point and no trade, and the
\* LiveEngine is not constructed: its connector is never started and no
\* signal is logged.  With both present nothing is raised.
C32_MissingArtifactFatal ==
    /\ loads <= 1
    /\ (ArtifactAbsent /\ loads = 1) =>
           \/ pc = "raised" /\ raised = "FileNotFoundError"
           \/ lpc = "failed" /\ exc = "FileNotFoundError"
    /\ ArtifactAbsent =>
           /\ pc \in {"call", "raised", "off"}
           /\ lpc \in {"new", "failed", "off"}
           /\ trades = <<>> /\ equity_curve = <<>>
           /\ ws = "none" /\ ~running /\ signals = <<>>
    /\ ~ArtifactAbsent =>
           /\ pc # "raised" /\ raised = "none"
           /\ lpc # "failed" /\ exc # "FileNotFoundError"
\* run_backtest has raised with the model file present and the scaler file
\* absent.
C32_Witness ==
    /\ pc = "raised"
    /\ raised = "FileNotFoundError"
    /\ models_dir.model
    /\ ~models_dir.scaler
\* The constructor of LiveEngine has raised with the model file absent.
NotConstructedWitness ==
    /\ lpc = "failed"
    /\ exc = "FileNotFoundError"
    /\ ~models_dir.model
    /\ models_dir.scaler
    /\ ws = "none"
\* With both files present the backtest trades and the live engine logs.
LoadedWitness == pc = "done" /\ Len(trades) >= 2
ConstructedWitness == lpc = "sleep" /\ Len(signals) >= 1

\* ======================================================================
\* Stopping the connector from another thread (SpecLive)

\* C33: after connector.stop() has been called by another thread while run
\* is in its loop, no further signal is logged: from a moment at which the
\* connector is stopped and run is between two iterations, the log stays as
\* it is.
C33_NoSignalAfterStop ==
    \A n \in 0..MaxTicks :
        []((~running /\ lpc \in {"sleep", "poll"} /\ Len(signals) = n)
               => [](Len(signals) = n))
\* What the code does instead: a stop by another thread leaves run in its
\* loop, which leaves it by an exception only.
LoopIgnoresStop ==
    /\ [][(running /\ ~running' /\ lpc \in InLoop) => lpc' = lpc]_vars
    /\ [][(lpc \in InLoop /\ lpc' \notin InLoop) =>
              (exc' # "none" /\ exc = "none")]_vars
\* An iteration begun after the stop has logged a signal.
SignalAfterStopWitness ==
    /\ ~running
    /\ ws = "closed"
    /\ lpc = "sleep"
    /\ exc = "none"
    /\ Len(signals) = 2

\* ======================================================================
\* The filter of on_message (SpecLive)

\* This step is a call of on_message.
Arrival == Len(arrived') = Len(arrived) + 1

\* C37: a message of another channel, of another coin or that does not
\* parse leaves the stored snapshot and the websocket thread as they are
\* (on_message returns, the connection stays open); the stored snapshot
\* changes only to the content of a parsed l2Book message of the
\* connector's coin.
C37_OnMessageFilter ==
    /\ [][Arrival =>
              IF IsOwnBook(arrived'[Len(arrived')])
              THEN /\ wpc' = "lock"
                   /\ content' = [time |-> 1000 * Len(arrived')]
                                     @@ arrived'[Len(arrived')].data
                   /\ latest_book' = latest_book
              ELSE UNCHANGED <<latest_book, accepted, wpc, content, lock, ws,
                               running>>]_vars
    /\ [][latest_book' # latest_book =>
              \E k \in 1..Len(arrived) :
                  /\ IsOwnBook(arrived[k])
                  /\ latest_book' = [time |-> 1000 * k] @@ arrived[k].data]_vars
\* A snapshot was stored, then a message that does not parse and one of
\* another coin arrived: the first is still stored and the websocket thread
\* waits for the next message.
C37_Witness ==
    /\ Len(arrived) = 3
    /\ IsOwnBook(arrived[1])
    /\ arrived[2] = NotJson
    /\ "data" \in DOMAIN arrived[3]
    /\ arrived[3].data.coin = "ETH"
    /\ latest_book = [time |-> 1000] @@ arrived[1].data
    /\ wpc = "idle"
    /\ ws = "open"
\* A message of another channel arrived first: nothing is stored.
OtherChannelWitness ==
    /\ Len(arrived) = 1
    /\ arrived[1] # NotJson
    /\ arrived[1].channel = "trades"
    /\ latest_book = None
    /\ wpc = "idle"

\* ======================================================================
\* Polling without new data (SpecLive)

\* C38: get_latest_book leaves the stored snapshot in place; once a
\* snapshot has been accepted every poll returns one, the one accepted
\* last, whether or not a message arrived since the poll before and whether
\* or not the connector has been stopped; and the iteration that polled a
\* snapshot with both sides logs a signal for it.
C38_PollDoesNotConsume ==
    /\ [][ReadStep => (latest_book' = latest_book /\ accepted' = accepted)]_vars
    /\ [][(ReadStep /\ accepted # <<>>) =>
              /\ polled_book' # None
              /\ polled_book' = LastAccepted
              /\ lpc' = "process"]_vars
    /\ [][(/\ lpc = "infer"
           /\ ~Malformed(polled_book)
           /\ lpc' # lpc
           /\ exc' # "KeyboardInterrupt") =>
              /\ Emitted
              /\ signals'[Len(signals')].time = polled_book.time
              /\ lpc' = "sleep"]_vars
\* One snapshot was accepted, the connector was stopped, and two iterations
\* have each logged a signal for that snapshot.
C38_Witness ==
    /\ Len(accepted) = 1
    /\ Len(arrived) = 1
    /\ ~running
    /\ ws = "closed"
    /\ Len(signals) = 2
    /\ signals[1].time = accepted[1].time
    /\ signals[2].time = accepted[1].time
    /\ latest_book = accepted[1]

\* ======================================================================
\* Further properties of run_backtest (Spec)

\* C34: the equity point of a row is valued from the cash and holdings the
\* row finds, before its decision is applied: a row that buys records the
\* cash before the purchase and a row that sells records the position it
\* is about to close; Final Close appends no point, so the last point does
\* not show a fill of the last row nor the end-of-data liquidation.
C34_PointBeforeDecision ==
    /\ [][RowStep =>
              /\ Last(equity_curve').equity =
                     IF Less(Zero, holdings)
                     THEN Add(cash, MulRat(holdings, row'.bid_px))
                     ELSE cash
              /\ Appended("BUY") => Last(equity_curve').equity = cash
              /\ Appended("SELL") =>
                     Last(equity_curve').equity =
                         Add(cash, MulRat(holdings, row'.bid_px))]_vars
    /\ [][~RowStep => equity_curve' = equity_curve]_vars
\* The last row bought and Final Close sold: the last equity point is the
\* starting cash, which the final cash (fees paid twice, spread crossed) is
\* below.
C34_Witness ==
    /\ pc = "done"
    /\ Len(trades) = 2
    /\ trades[1].side = "BUY"
    /\ trades[1].time = row.timestamp
    /\ trades[2].reason = "End"
    /\ Last(equity_curve).equity = Amt(10000, 1)
    /\ Less(cash, Last(equity_curve).equity)

\* The index in the ledger of its last BUY (0 if it has none).
LastBuy ==
    IF \E i \in 1..Len(trades) : trades[i].side = "BUY"
    THEN CHOOSE i \in 1..Len(trades) :
             /\ trades[i].side = "BUY"
             /\ \A j \in (i + 1)..Len(trades) : trades[j].side # "BUY"
    ELSE 0

\* C35: between two iterations of the row loop, and when the loop has
\* ended, the status is LONG if and only if holdings > 0, and while LONG
\* the entry price and entry time are the price and time of the last BUY of
\* the ledger, which is its last entry.
C35_StatusMatchesPortfolio ==
    pc \in {"loop", "final"} =>
        /\ position \in {0, 1}
        /\ position = 1 <=> Less(Zero, holdings)
        /\ position = 0 => holdings = Zero
        /\ position = 1 =>
               /\ LastBuy = Len(trades)
               /\ LastBuy > 0
               /\ entry_price = trades[LastBuy].price
               /\ entry_time = trades[LastBuy].time
\* LONG for the second time: the entry is that of the second BUY.
C35_Witness ==
    /\ pc = "loop"
    /\ position = 1
    /\ Len(trades) = 3
    /\ Less(Zero, holdings)
    /\ entry_time = trades[3].time
    /\ entry_time > trades[1].time
\* FLAT again after a round trip.
FlatAfterExitWitness ==
    /\ pc = "loop"
    /\ position = 0
    /\ Len(trades) = 2
    /\ holdings = Zero

\* This row's exit rule, evaluated on the position held before the row.
ExitDue ==
    ExitReason(PctChange(row'.bid_px, entry_price),
               row'.timestamp - entry_time, row'.prob) # ""

\* C36: a row of the loop applies at most one fill. A row that opens a
\* position leaves it open, whatever that row's exit rule would say; a row
\* that closes the position leaves the status FLAT and appends the SELL
\* alone, also when the row's probability is above 0.6.
C36_OneFillPerRow ==
    [][RowStep =>
          /\ Len(trades') <= Len(trades) + 1
          /\ SubSeq(trades', 1, Len(trades)) = trades
          /\ position = 0 =>
                 /\ Len(trades') = Len(trades) + 1 => Appended("BUY")
                 /\ Appended("BUY") => position' = 1 /\ Less(Zero, holdings')
                 /\ RatLt(buy_threshold, row'.prob) => Appended("BUY")
          /\ position = 1 =>
                 /\ Len(trades') = Len(trades) + 1 => Appended("SELL")
                 /\ Appended("SELL") => position' = 0 /\ holdings' = Zero
                 /\ ExitDue => Appended("SELL")]_vars
\* A SELL on a row whose probability is above 0.6 is the last ledger entry
\* at the next row boundary, and the status is FLAT.
C36_Witness ==
    /\ pc = "loop"
    /\ Len(trades) = 2
    /\ trades[2].side = "SELL"
    /\ trades[2].time = row.timestamp
    /\ RatLt(buy_threshold, row.prob)
    /\ position = 0
\* A BUY on a row whose bid is below the stop-loss distance from its own
\* ask stays open at the next row boundary.
OpenedStaysOpenWitness ==
    /\ pc = "loop"
    /\ Len(trades) = 1
    /\ trades[1].time = row.timestamp
    /\ position = 1
    /\ ExitReason(PctChange(row.bid_px, entry_price), 0, row.prob) # ""

\* ======================================================================
\* Properties of get_l2_snapshot (SpecDownload, SpecDownloadFair)
\* ======================================================================
\* The outcomes the retry policy names: HTTP 429, HTTP >= 500, a timeout,
\* a connection error.
RetryableOutcome(o) ==
    \/ o.kind \in {"Timeout", "ConnectionError"}
    \/ o.kind = "response" /\ (o.status = 429 \/ o.status >= 500)
\* This step is one HTTP attempt.
Attempted == gets' = gets + 1
Ended == dpc \in {"returned", "raised"}

\* C39: get_l2_snapshot ends, after at most 10 HTTP attempts. An attempt
\* that ends in HTTP 429, HTTP >= 500, a timeout or a connection error is
\* followed by a backoff and, if it was not the tenth, by another attempt;
\* after the tenth such attempt the call raises HyperliquidAPIError (max
\* retries exceeded) and returns nothing.
C39_BoundedRetries ==
    /\ <>Ended
    /\ [](gets <= 10)
    /\ [](dpc = "get" /\ gets > 0 => gets < 10 /\ RetryableOutcome(outcome))
    /\ [](dpc = "returned" => ~RetryableOutcome(outcome))
    /\ [][Attempted /\ RetryableOutcome(outcome') =>
              /\ dpc' = "sleep"
              /\ backoff' > 0
              /\ result' = "none"]_vars
    /\ [][dpc = "sleep" /\ gets < 10 => dpc' = "get"]_vars
    /\ [][dpc = "sleep" /\ gets = 10 =>
              /\ dpc' = "raised"
              /\ result' = "Max retries exceeded"
              /\ gets' = gets]_vars
\* Ten attempts, the last a 503: the call has raised.
C39_Witness ==
    /\ dpc = "raised"
    /\ result = "Max retries exceeded"
    /\ gets = 10
    /\ outcome = Response(503, TRUE)
\* A timeout on the third attempt is being backed off.
RetryingWitness ==
    /\ dpc = "sleep"
    /\ gets = 3
    /\ outcome.kind = "Timeout"
    /\ backoff > 0

\* C40: an attempt that ends in HTTP 404 makes the call return None, one
\* that ends in HTTP 200 with a valid frame makes it return the decompressed
\* bytes, and one that ends in HTTP 200 with an invalid frame or in any
\* other status below 500 makes it raise HyperliquidAPIError; in each case
\* the call ends on that attempt and no further request is made.
C40_NonRetryableEnds ==
    /\ [][Attempted /\ outcome'.kind = "response" =>
              /\ outcome'.status = 404 =>
                     dpc' = "returned" /\ result' = "None"
              /\ outcome'.status = 200 /\ outcome'.lz4 =>
                     dpc' = "returned" /\ result' = "decompressed"
              /\ outcome'.status = 200 /\ ~outcome'.lz4 =>
                     dpc' = "raised" /\ result' = "Decompression error"
              /\ outcome'.status < 500
                     /\ outcome'.status \notin {200, 404, 429} =>
                     dpc' = "raised" /\ result' = "API error"]_vars
    /\ [][Ended => gets' = gets /\ dpc' = dpc /\ result' = result]_vars
\* A 404 on the third attempt, after two retried ones: None is returned.
C40_Witness ==
    /\ dpc = "returned"
    /\ result = "None"
    /\ gets = 3
    /\ outcome = Response(404, TRUE)
\* A 200 whose body is not a valid frame, and a 400, raise on the spot.
RaisedAtOnceWitness ==
    /\ dpc = "raised"
    /\ gets = 1
    /\ outcome \in {Response(200, FALSE), Response(400, TRUE)}

====
